---- MODULE Spec2Model ----
(***************************************************************************)
(* Model of the RPA bill-retrieval workers of SolarGrid-NR/rpa-bots:       *)
(*   - the Light RJ browser worker   (src/actors/light-rj/src/main.ts)     *)
(*   - the Light RJ HTTP worker      (src/actors/light-rj-http/src/main.ts)*)
(*   - the Equatorial browser worker (src/unnamed/part_001, lines 47-306)  *)
(* One run of one worker is one behaviour.  The portal, the CAPTCHA        *)
(* service and the browser are the environment: whatever the code reads    *)
(* from them is chosen with \E at the step that reads it.                  *)
(* Actor.fail and Actor.exit end the process (Apify SDK: both call         *)
(* process.exit), so the first of them that runs fixes the exit code that  *)
(* the API route records in status.json.                                   *)
(***************************************************************************)
EXTENDS Integers, Sequences, FiniteSets, TLC

(***************************************************************************)
(* Strings the code inspects character by character are sequences of       *)
(* one-character strings.                                                  *)
(***************************************************************************)
\* page.goto target of the login surface
loginPageUrl ==
    <<"h","t","t","p","s",":","/","/","a","g","e","n","c","i","a","v","i","r","t","u","a","l",".","l","i","g","h","t",".","c","o","m",".","b","r","/","p","o","r","t","a","l","/">>

\* the address the portal shows after a login (comment at main.ts:406)
loggedInUrl ==
    <<"h","t","t","p","s",":","/","/","a","g","e","n","c","i","a","v","i","r","t","u","a","l",".","l","i","g","h","t",".","c","o","m",".","b","r","/","p","o","r","t","a","l","/","L","o","g","i","n",".","a","s","p","x">>

\* the same address as served in lower case
loggedInUrlLower ==
    <<"h","t","t","p","s",":","/","/","a","g","e","n","c","i","a","v","i","r","t","u","a","l",".","l","i","g","h","t",".","c","o","m",".","b","r","/","p","o","r","t","a","l","/","l","o","g","i","n",".","a","s","p","x">>

\* some other portal page
otherUrl ==
    <<"h","t","t","p","s",":","/","/","a","g","e","n","c","i","a","v","i","r","t","u","a","l",".","l","i","g","h","t",".","c","o","m",".","b","r","/","p","o","r","t","a","l","/","H","o","m","e",".","a","s","p","x">>

\* open-bills surface
billsUrl ==
    <<"h","t","t","p","s",":","/","/","a","g","e","n","c","i","a","v","i","r","t","u","a","l",".","l","i","g","h","t",".","c","o","m",".","b","r","/","A","G","V","_","S","e","g","u","n","d","a","_","V","i","a","_","V","W","/">>

\* paid-bills surface
paidBillsUrl ==
    <<"h","t","t","p","s",":","/","/","a","g","e","n","c","i","a","v","i","r","t","u","a","l",".","l","i","g","h","t",".","c","o","m",".","b","r","/","A","G","V","_","C","o","m","p","r","o","v","a","n","t","e","_","C","o","n","t","a","_","P","a","g","a","_","V","W","/","C","o","m","p","r","o","v","a","n","t","e","_","C","o","n","t","a","_","P","a","g","a",".","a","s","p","x">>

Urls ==
    {loginPageUrl, loggedInUrl, loggedInUrlLower, otherUrl, billsUrl, paidBillsUrl}

\* String.prototype.includes
Includes(s, sub) ==
    \E k \in 0..(Len(s) - Len(sub)) : SubSeq(s, k + 1, k + Len(sub)) = sub

UpperCase ==
    {"A","B","C","D","E","F","G","H","I","J","K","L","M","N","O","P","Q","R","S","T","U","V","W","X","Y","Z"}

LowerOf ==
    [c \in UpperCase |->
        CASE c = "A" -> "a" [] c = "B" -> "b" [] c = "C" -> "c" [] c = "D" -> "d"
          [] c = "E" -> "e" [] c = "F" -> "f" [] c = "G" -> "g" [] c = "H" -> "h"
          [] c = "I" -> "i" [] c = "J" -> "j" [] c = "K" -> "k" [] c = "L" -> "l"
          [] c = "M" -> "m" [] c = "N" -> "n" [] c = "O" -> "o" [] c = "P" -> "p"
          [] c = "Q" -> "q" [] c = "R" -> "r" [] c = "S" -> "s" [] c = "T" -> "t"
          [] c = "U" -> "u" [] c = "V" -> "v" [] c = "W" -> "w" [] c = "X" -> "x"
          [] c = "Y" -> "y" [] c = "Z" -> "z"]

\* String.prototype.toLowerCase
toLowerCase(s) ==
    [k \in 1..Len(s) |-> IF s[k] \in UpperCase THEN LowerOf[s[k]] ELSE s[k]]

\* The characters the class \d matches.
DigitChars == {"0", "1", "2", "3", "4", "5", "6", "7", "8", "9"}

\* s.replace(/\D/g, ''): every character that is not a digit is removed
RemoveNonDigits(s) ==
    LET isDigit(c) == c \in DigitChars IN SelectSeq(s, isDigit)

\* The characters String.prototype.trim removes (those a username can carry).
WhiteSpace == {" ", "\t", "\n"}

RECURSIVE trimStart(_)
trimStart(s) ==
    IF s # <<>> /\ Head(s) \in WhiteSpace THEN trimStart(Tail(s)) ELSE s

RECURSIVE trimEnd(_)
trimEnd(s) ==
    IF s # <<>> /\ s[Len(s)] \in WhiteSpace THEN trimEnd(SubSeq(s, 1, Len(s) - 1)) ELSE s

\* String.prototype.trim
trim(s) == trimEnd(trimStart(s))

\* faulty variant of CleanUsername: the '@' of an e-mail address is not looked at
CleanUsernameAlways(u) == RemoveNonDigits(u)

\* faulty variant of CleanUsername: each application also drops the first digit
CleanUsernameShifting(u) ==
    IF ~Includes(u, <<"@">>) /\ RemoveNonDigits(u) # <<>>
    THEN Tail(RemoveNonDigits(u)) ELSE u

\* light-rj main.ts:178-181: if (!username.includes('@')) username = username.replace(/\D/g, '')
CleanUsername(u) ==
    IF ~Includes(u, <<"@">>) THEN RemoveNonDigits(u) ELSE u

\* faulty variant of HttpUsername: every username without '@' is reduced to its digits
HttpUsernameDigitsUnlessAt(u) ==
    IF Includes(trim(u), <<"@">>) THEN trim(u) ELSE RemoveNonDigits(trim(u))

\* light-rj-http main.ts:82-86: rawUsername, digitsOnly and the choice between them
HttpUsername(u) ==
    LET rawUsername == trim(u)
        digitsOnly == RemoveNonDigits(rawUsername)
    IN  IF Includes(rawUsername, <<"@">>) \/ 2 * Len(digitsOnly) < Len(rawUsername)
        THEN rawUsername
        ELSE digitsOnly

(***************************************************************************)
(* Bounds of the model and constants of the program.                       *)
(***************************************************************************)
\* bound: the most month labels the portal shows for one installation
MaxMatches == 2

\* light-rj main.ts:160
maxLoginAttempts == 3

\* light-rj main.ts:53 and light-rj-http main.ts:33: while (attempts < 200)
MaxPolls == 200

Workers == {"light-rj", "light-rj-http", "equatorial"}

VARIABLES
    worker,             \* which actor this run is
    pc,                 \* position of the run in its main.ts
    input,              \* RunInput: the texts of username, installationCode and
                        \* referenceMonth; whether the other fields are present
    username,           \* the local 'username' of the worker
    env,                \* process.env: whether ANTI_CAPTCHA_KEY is set
    status,             \* "RUNNING", or the terminal status the process exited with
    thrown,             \* message of the exception being propagated, "" if none
    browser,            \* "none" | "open" | "closed"
    url,                \* page.url()
    page,               \* what the page shows: banner, greeting, username input
    loginSuccess,       \* light-rj main.ts:158
    loginAttempts,      \* light-rj main.ts:159
    attempts,           \* solveAntiCaptcha: poll counter
    createTaskResponse, \* solveAntiCaptcha: data of the createTask response
    resultResponse,     \* solveAntiCaptcha: data of the last getTaskResult response
    token,              \* value returned by solveAntiCaptcha, 0 if none
    result,             \* light-rj main.ts:472: '' | 'BILLS' | 'UP_TO_DATE'
    installCount,       \* installLocator.count()
    count,              \* monthMatches.count()
    i,                  \* download loop index (0-based)
    downloadUrl,        \* light-rj-http: what extractDownloadUrl returned
    kvStore,            \* keys written with Actor.setValue
    dataset,            \* records written with Actor.pushData
    h                   \* history of the run (observations only, never read by the code)

vars ==
    <<worker, pc, input, username, env, status, thrown, browser, url, page, loginSuccess,
      loginAttempts, attempts, createTaskResponse, resultResponse, token, result,
      installCount, count, i, downloadUrl, kvStore, dataset, h>>

solverVars == <<attempts, createTaskResponse, resultResponse, token>>
discoveryVars == <<result, installCount, count, i, downloadUrl>>
loginVars == <<loginSuccess, loginAttempts>>

\* A key of the key-value store: a fixed name, or the n-th invoice / debug shot.
Key(name, n) == [name |-> name, n |-> n]

NoResponse == [errorId |-> 0, status |-> "none"]

\* What the page shows while the login form is displayed.
LoginFormPage ==
    [banner |-> "none", hasWelcome |-> FALSE, inputCount |-> 1, inputVisible |-> TRUE]

\* Nothing observed: the observations of a login attempt end with the attempt.
NoPage ==
    [banner |-> "none", hasWelcome |-> FALSE, inputCount |-> 0, inputVisible |-> FALSE]

\* What a page can show after the form was submitted.
Pages ==
    {p \in [banner : {"none", "robo", "other"}, hasWelcome : BOOLEAN,
            inputCount : 0..1, inputVisible : BOOLEAN] :
        p.inputVisible => p.inputCount > 0}

\* Where the portal can leave the browser after the form was submitted.
PostSubmitUrls == {loginPageUrl, loggedInUrl, loggedInUrlLower, otherUrl}

\* The texts a run of the whole worker is followed with ('' is a missing field).
sampleUsername == <<" ","1","2",".","3","-","a"," ">>
sampleCode == <<"9","9","8","8">>
sampleMonth == <<"0","3","/","2","0","2","5">>

Inputs ==
    [isNull : BOOLEAN, username : {<<>>, sampleUsername}, password : BOOLEAN,
     antiCaptchaKey : BOOLEAN, installationCode : {<<>>, sampleCode},
     referenceMonth : {<<>>, sampleMonth}]

\* A login attempt that has done nothing yet.
NoAttempt ==
    [fills |-> 0,               \* times the credential fields were filled
     injections |-> 0,          \* times a token was injected
     injected |-> 0,            \* the token that was injected
     settled |-> 0,             \* milliseconds waited after the injection
     clicks |-> 0,              \* clicks on the submit control
     banner |-> "n/a",          \* the error banner found after the first submit
     retryBanner |-> FALSE,     \* the banner was visible at the re-check after the re-submit
     tasks |-> 0,               \* CAPTCHA tasks created in the attempt
     siteKey |-> "n/a"]         \* "found": the login surface yielded a site key | "absent"

\* No download click was just made.
NoClick ==
    [match |-> 0,               \* position of the match whose control was clicked
     modal |-> FALSE,           \* the reason modal became visible
     moment |-> "never",        \* when the download of the first click fired
     fired |-> FALSE,           \* a download fired within the bound of its listener
     saved |-> "none"]          \* "first": the listener armed before the first click
                                \* "confirm": the listener of the confirmation | "none"

\* No installation is being expanded.
NoDiscovery ==
    [accepted |-> "none",       \* "exact": the accepted entry is labeled with the code
                                \* "substring": its label only contains the code
     code |-> "none",           \* "open" | "paid": which expansion code ran
     shown |-> FALSE,           \* content visible and non-empty at the decision
     closedFlag |-> FALSE,      \* is--closed class or aria-expanded = 'false'
     clicks |-> 0,              \* expand clicks issued (header, then icon)
     shownAfter |-> FALSE,      \* content visible after the expansion step
     spinner |-> "n/a",         \* "never" attached | "detached" | "stuck" attached
     trigger |-> "none",        \* "exact": the posted expansion trigger is the one of
                                \* the requested installation | "other"
     picked |-> "none"]         \* the bill whose link was extracted: "target" |
                                \* "otherMonth" | "otherInstallation"

\* The dashboard runner before a run: the state of ActorRunner, the timers of
\* handleRun, and the actor process and status file of the API route.
NoRunner ==
    [isRunning |-> FALSE,    \* the state 'isRunning' of the component
     captured |-> FALSE,     \* 'isRunning' as the closure of handleRun sees it
     runResult |-> FALSE,    \* setRunResult(data) was called
     interval |-> "none",    \* pollInterval: "none" | "active" | "cleared"
     timeout |-> "none",     \* the safety timeout: "none" | "pending" | "fired"
     elapsed |-> 0,          \* milliseconds since the timers were set
     response |-> "none",    \* what POST returned: "none" | "ok" | "error"
     child |-> "none",       \* the actor process: "none" | "running" | "errored" | "closed"
     statusJson |-> FALSE]   \* status.json exists in the store of the run

InitHistory ==
    [validation |-> "none",     \* outcome of the validation of the current attempt
     validated |-> FALSE,       \* some login attempt of this run was validated
     createTaskCalls |-> 0,     \* createTask requests sent in this run
     getTaskResultCalls |-> 0,  \* getTaskResult requests sent by the current solver call
     typed |-> <<>>,             \* the values given to fillInput, one entry per attempt
     cookies |-> {},             \* light-rj-http: the cookie store, [name, value] entries
     cookieText |-> <<>>,        \* the text of the cookie the store was last given
     runner |-> NoRunner,        \* the dashboard runner (ActorRunner.tsx, run-actor/route.ts)
     created |-> 0,              \* createTask requests of the current solver call
     pollDelay |-> 0,            \* milliseconds waited before the polls of the call
     solver |-> "idle",         \* "idle" | "polling" | "returned" | "raised"
     attempt |-> NoAttempt,     \* what the current login attempt has done
     lastClick |-> NoClick,     \* the download click that was just made
     disc |-> NoDiscovery,      \* the installation being expanded and settled
     navs |-> <<>>,             \* the bill surfaces navigated to, in order
     billNavs |-> 0,            \* navigations (requests) to a bill-listing surface
     upToDateShown |-> FALSE,   \* the open-bills page showed the account-is-current message
     lookups |-> <<>>,          \* installation lookups: <<surface, found>>
     searches |-> <<>>,         \* month searches: <<surface, matches>>
     started |-> {},            \* matches (1-based) the download loop has started
     noButton |-> {},           \* matches for which no download control was found
     downloadGets |-> 0,        \* download requests sent by the HTTP worker
     silentAt |-> 0,            \* match whose click was followed by no download event
     stored |-> {},             \* <<key, bytes>> of the invoices put in the store
     lastBody |-> {},           \* light-rj-http: the body of the last download response
     diag |-> "none",           \* error diagnostics of the catch: "none" | "saved" | "failed"
     raised |-> "",             \* message of the error the catch block received
     reported |-> "",           \* message given to Actor.fail
     closedAtReport |-> "n/a"]  \* state of the browser when the terminal status was reported

Init ==
    /\ worker \in Workers
    /\ pc = "getInput"
    /\ input \in {x \in Inputs : x.isNull =>
                    /\ ~(x.password \/ x.antiCaptchaKey)
                    /\ x.username = <<>> /\ x.installationCode = <<>>
                    /\ x.referenceMonth = <<>>}
    /\ username = <<>>
    /\ env \in {e \in [ANTI_CAPTCHA_KEY : BOOLEAN] :
                    e.ANTI_CAPTCHA_KEY => ~input.isNull /\ ~input.antiCaptchaKey}
    /\ status = "RUNNING"
    /\ thrown = ""
    /\ browser = "none"
    /\ url = <<>>
    /\ page = NoPage
    /\ loginSuccess = FALSE
    /\ loginAttempts = 0
    /\ attempts = 0
    /\ createTaskResponse = NoResponse
    /\ resultResponse = NoResponse
    /\ token = 0
    /\ result = ""
    /\ installCount = 0
    /\ count = 0
    /\ i = 0
    /\ downloadUrl = "none"
    /\ kvStore = {}
    /\ dataset = <<>>
    /\ h = InitHistory

(***************************************************************************)
(* Apify SDK: Actor.fail(message) and Actor.exit() report the terminal     *)
(* status and end the process.                                             *)
(***************************************************************************)
ActorFail(msg) ==
    /\ status' = "FAILED"
    /\ pc' = "exited"
    /\ thrown' = msg
    /\ h' = [h EXCEPT !.closedAtReport = browser, !.reported = msg]

ActorExit ==
    /\ status' = "SUCCEEDED"
    /\ pc' = "exited"
    /\ h' = [h EXCEPT !.closedAtReport = browser]

(***************************************************************************)
(* solveAntiCaptcha: decisions shared by the steps of both copies.         *)
(***************************************************************************)
\* What the service can answer to createTask and to getTaskResult.
CreateTaskResponses == [errorId : {0, 1}, status : {"none"}]
TaskResultResponses == [errorId : {0, 1}, status : {"processing", "ready"}]

\* light-rj main.ts:44: createTaskResponse.data.errorId !== 0
CreateTaskRejected(r) == r.errorId # 0

\* faulty variant of PollAgain: one poll too many
PollAgainInclusive(a) == a <= MaxPolls

\* light-rj main.ts:53: while (attempts < 200)
PollAgain(a) == a < MaxPolls

\* faulty variant of ResultOutcome: the status is looked at before the error code
ResultOutcomeStatusFirst(r) ==
    IF r.status = "ready" THEN "return"
    ELSE IF r.errorId # 0 THEN "throw"
    ELSE "continue"

\* light-rj main.ts:62-69: the error code is checked before the status
ResultOutcome(r) ==
    IF r.errorId # 0 THEN "throw"
    ELSE IF r.status = "ready" THEN "return"
    ELSE "continue"

\* light-rj-http main.ts:25
HttpCreateTaskRejected(r) == r.errorId # 0

\* faulty variant of PollDelay: the interval grows with the number of polls
PollDelayBackoff(a) == 3000 * (a + 1)

\* light-rj main.ts:54: await new Promise(resolve => setTimeout(resolve, 3000)),
\* whatever the number a of polls made before
PollDelay(a) == 3000

\* light-rj-http main.ts:34: setTimeout(resolve, 3000)
HttpPollDelay(a) == 3000

\* light-rj-http main.ts:33
HttpPollAgain(a) == a < MaxPolls

\* light-rj-http main.ts:42-49
HttpResultOutcome(r) ==
    IF r.errorId # 0 THEN "throw"
    ELSE IF r.status = "ready" THEN "return"
    ELSE "continue"

(***************************************************************************)
(* Light RJ browser worker.                                                *)
(***************************************************************************)
\* faulty variant of CredentialsMissing: the password is not looked at
CredentialsMissingUserOnly(inp) == inp.username = <<>>

\* main.ts:113: !input.username || !input.password
CredentialsMissing(inp) == inp.username = <<>> \/ ~inp.password

\* main.ts:86-119: input is read; a null input throws to the outer catch, a
\* missing username or password ends the run with Actor.fail.
GetInput ==
    /\ worker = "light-rj" /\ pc = "getInput"
    /\ IF input.isNull
       THEN /\ thrown' = "Input is null or missing."
            /\ pc' = "outerCatch"
            /\ UNCHANGED <<status, h, username>>
       ELSE IF CredentialsMissing(input)
       THEN /\ ActorFail("Username and password are required.")
            /\ UNCHANGED username
       ELSE /\ pc' = "launch"
            /\ username' = input.username
            /\ UNCHANGED <<status, thrown, h>>
    /\ UNCHANGED <<worker, input, env, browser, url, page, loginVars, solverVars,
                   discoveryVars, kvStore, dataset>>

\* main.ts:126-153: chromium.launch, newContext, newPage; launch can fail.
Launch ==
    /\ worker = "light-rj" /\ pc = "launch"
    /\ \E ok \in BOOLEAN :
         IF ok
         THEN /\ browser' = "open"
              /\ pc' = "loginLoop"
              /\ UNCHANGED thrown
         ELSE /\ thrown' = "browser launch failed"
              /\ pc' = "outerCatch"
              /\ UNCHANGED browser
    /\ UNCHANGED <<worker, input, username, env, status, url, page, loginVars, solverVars,
                   discoveryVars, kvStore, dataset, h>>

\* main.ts:869-872
OuterCatch ==
    /\ worker = "light-rj" /\ pc = "outerCatch"
    /\ ActorFail(thrown)
    /\ UNCHANGED <<worker, input, username, env, browser, url, page, loginVars, solverVars,
                   discoveryVars, kvStore, dataset>>

\* faulty variant of LoopCondition: a validated login does not stop the loop
LoopConditionIgnoresSuccess(ls, la) == la < maxLoginAttempts

\* main.ts:162: while (!loginSuccess && loginAttempts < maxLoginAttempts)
LoopCondition(ls, la) == ~ls /\ la < maxLoginAttempts

\* main.ts:162-164 and 449-452: one test of the loop condition
LoginLoop ==
    /\ worker = "light-rj" /\ pc = "loginLoop"
    /\ IF LoopCondition(loginSuccess, loginAttempts)
       THEN /\ loginAttempts' = loginAttempts + 1
            /\ pc' = "navigate"
       ELSE /\ pc' = "capture"
            /\ UNCHANGED loginAttempts
    /\ attempts' = 0
    /\ createTaskResponse' = NoResponse
    /\ resultResponse' = NoResponse
    /\ token' = 0
    /\ thrown' = ""
    /\ page' = NoPage
    /\ h' = [h EXCEPT !.validation = "none", !.solver = "idle", !.getTaskResultCalls = 0, !.pollDelay = 0, !.created = 0,
                      !.attempt = NoAttempt]
    /\ UNCHANGED <<worker, input, username, env, status, browser, url, loginSuccess,
                   discoveryVars, kvStore, dataset>>

\* main.ts:166-190: goto the portal, wait for the credential inputs
Navigate ==
    /\ worker = "light-rj" /\ pc = "navigate"
    /\ \E outcome \in {"gotoFails", "noInputs", "ok"} :
         CASE outcome = "gotoFails" ->
                /\ thrown' = "page.goto: Timeout 30000ms exceeded."
                /\ pc' = "loginCatch"
                /\ UNCHANGED <<url, page, kvStore, username>>
           [] outcome = "noInputs" ->
                /\ url' = loginPageUrl
                /\ username' = CleanUsername(username)
                /\ page' = [LoginFormPage EXCEPT !.inputCount = 0, !.inputVisible = FALSE]
                /\ kvStore' = kvStore \cup {Key("PAGE_DUMP.html", 0)}
                /\ thrown' = "Inputs not found - check PAGE_DUMP.html"
                /\ pc' = "loginCatch"
           [] outcome = "ok" ->
                /\ url' = loginPageUrl
                /\ username' = CleanUsername(username)
                /\ page' = LoginFormPage
                /\ pc' = "fill"
                /\ UNCHANGED <<thrown, kvStore>>
    /\ UNCHANGED <<worker, input, env, status, browser, loginVars, solverVars,
                   discoveryVars, dataset, h>>

\* main.ts:250: input.antiCaptchaKey || process.env.ANTI_CAPTCHA_KEY
acKey == input.antiCaptchaKey \/ env.ANTI_CAPTCHA_KEY

\* What the 'k' parameter of the challenge frame URL, or the data-sitekey
\* attribute, can hold ("": no such frame or element).
SiteKeys == {"", "6Lsite"}

\* Whether the login surface yielded a site key.
Yielded(frameKey, dataSitekey) ==
    IF frameKey = "" /\ dataSitekey = "" THEN "absent" ELSE "found"

\* main.ts:231-244: the key of the frame URL, else the data-sitekey attribute
SiteKey(frameKey, dataSitekey) == IF frameKey # "" THEN frameKey ELSE dataSitekey

\* light-rj-http main.ts:173: $('[data-sitekey]').attr('data-sitekey') || '6LcLDd8U...'
HttpSiteKey(dataSitekey) == IF dataSitekey # "" THEN dataSitekey ELSE "6LcLDd8U"

\* main.ts:192-251: fill both fields (fillInput never throws), read the site
\* key from the challenge frame or from [data-sitekey], pick the API key
FillAndFindSiteKey ==
    /\ worker = "light-rj" /\ pc = "fill"
    /\ \E frameKey \in SiteKeys, dataSitekey \in SiteKeys :
         /\ IF SiteKey(frameKey, dataSitekey) = ""
            THEN /\ thrown' = "Could not find reCAPTCHA sitekey"
                 /\ pc' = "loginCatch"
            ELSE IF ~acKey
            THEN /\ thrown' = "Anti-Captcha selected but no key provided."
                 /\ pc' = "loginCatch"
            ELSE /\ pc' = "createTask"
                 /\ UNCHANGED thrown
         /\ h' = [h EXCEPT !.attempt.fills = @ + 1,
                           !.attempt.siteKey = Yielded(frameKey, dataSitekey)]
    /\ UNCHANGED <<worker, input, username, env, status, browser, url, page, loginVars,
                   solverVars, discoveryVars, kvStore, dataset>>

\* main.ts:35-49: createTask (the request itself can fail)
CreateTask ==
    /\ worker = "light-rj" /\ pc = "createTask"
    /\ \E sent \in BOOLEAN, r \in CreateTaskResponses :
         IF ~sent
         THEN /\ thrown' = "Request failed"
              /\ pc' = "loginCatch"
              /\ h' = [h EXCEPT !.createTaskCalls = @ + 1, !.created = @ + 1,
                                !.attempt.tasks = @ + 1, !.solver = "raised"]
              /\ UNCHANGED createTaskResponse
         ELSE /\ createTaskResponse' = r
              /\ IF CreateTaskRejected(r)
                 THEN /\ thrown' = "Anti-Captcha Error"
                      /\ pc' = "loginCatch"
                      /\ h' = [h EXCEPT !.createTaskCalls = @ + 1, !.created = @ + 1,
                                !.attempt.tasks = @ + 1, !.solver = "raised"]
                 ELSE /\ pc' = "poll"
                      /\ h' = [h EXCEPT !.createTaskCalls = @ + 1, !.created = @ + 1,
                                !.attempt.tasks = @ + 1, !.solver = "polling"]
                      /\ UNCHANGED thrown
    /\ UNCHANGED <<worker, input, username, env, status, browser, url, page, loginVars,
                   attempts, resultResponse, token, discoveryVars, kvStore, dataset>>

\* faulty variant of AfterSolver: the token is not injected
AfterSolverSubmits(outcome) == IF outcome = "return" THEN "submit" ELSE "loginCatch"

\* main.ts:253-257: the statement after 'const token = await solveAntiCaptcha(...)'
\* is the injection; an error of the solver leaves the attempt
AfterSolver(outcome) == IF outcome = "return" THEN "inject" ELSE "loginCatch"

\* main.ts:52-74: one turn of the poll loop, or the timeout after it
Poll ==
    /\ worker = "light-rj" /\ pc = "poll"
    /\ IF PollAgain(attempts)
       THEN /\ attempts' = attempts + 1
            /\ \E r \in TaskResultResponses :
                 /\ resultResponse' = r
                 /\ CASE ResultOutcome(r) = "throw" ->
                           /\ thrown' = "Anti-Captcha Task Error"
                           /\ pc' = "loginCatch"
                           /\ h' = [h EXCEPT !.getTaskResultCalls = @ + 1, !.pollDelay = @ + PollDelay(attempts),
                                             !.solver = "raised"]
                           /\ UNCHANGED token
                      [] ResultOutcome(r) = "return" ->
                           /\ token' = h.createTaskCalls
                           /\ pc' = AfterSolver("return")
                           /\ h' = [h EXCEPT !.getTaskResultCalls = @ + 1, !.pollDelay = @ + PollDelay(attempts),
                                             !.solver = "returned"]
                           /\ UNCHANGED thrown
                      [] OTHER ->
                           /\ h' = [h EXCEPT !.getTaskResultCalls = @ + 1, !.pollDelay = @ + PollDelay(attempts)]
                           /\ UNCHANGED <<pc, thrown, token>>
       ELSE /\ thrown' = "Anti-Captcha timeout."
            /\ pc' = "loginCatch"
            /\ h' = [h EXCEPT !.solver = "raised"]
            /\ UNCHANGED <<attempts, resultResponse, token>>
    /\ UNCHANGED <<worker, input, username, env, status, browser, url, page, loginVars,
                   createTaskResponse, discoveryVars, kvStore, dataset>>

\* main.ts:315: await page.waitForTimeout(3000)
SettleMs == 3000

\* main.ts:255-318: inject the token, save the debug shot, settle 3 s
\* (the locals of the finished solveAntiCaptcha call are gone)
InjectAndSettle ==
    /\ worker = "light-rj" /\ pc = "inject"
    /\ kvStore' = kvStore \cup {Key("captcha_injected_debug.png", 0)}
    /\ pc' = "submit"
    /\ attempts' = 0
    /\ createTaskResponse' = NoResponse
    /\ resultResponse' = NoResponse
    /\ h' = [h EXCEPT !.solver = "idle", !.getTaskResultCalls = 0, !.pollDelay = 0, !.created = 0,
                      !.attempt.injections = @ + 1,
                      !.attempt.injected = token,
                      !.attempt.settled = SettleMs]
    /\ UNCHANGED <<worker, downloadUrl, input, username, env, status, thrown, browser, url, page,
                   loginVars, token, result, installCount, count, i, dataset>>

\* main.ts:320-354: click the submit control; the portal answers
Submit ==
    /\ worker = "light-rj" /\ pc = "submit"
    /\ url' \in PostSubmitUrls
    /\ page' \in Pages
    /\ pc' = "awaitOutcome"
    /\ h' = [h EXCEPT !.attempt.clicks = @ + 1]
    /\ UNCHANGED <<worker, input, username, env, status, thrown, browser, loginVars,
                   solverVars, discoveryVars, kvStore, dataset>>

\* The text of the banner (.Feedback_Message_Error) for each kind of banner.
BannerText(b) ==
    IF b = "robo" THEN <<"N","ã","o"," ","s","o","u"," ","u","m"," ","r","o","b","ô">>
    ELSE <<"S","e","n","h","a"," ","i","n","v","á","l","i","d","a">>

\* main.ts:361: errorMsg.includes('robô')
IsBotRejection(errorMsg) == Includes(errorMsg, <<"r","o","b","ô">>)

\* main.ts:376, 381, 384: the messages of the errors thrown for a banner
LoginFailedMessage(errorMsg) ==
    <<"L","o","g","i","n"," ","f","a","i","l","e","d",":"," ">> \o errorMsg

LoginFailedOnRetryMessage(errorMsg) ==
    <<"L","o","g","i","n"," ","f","a","i","l","e","d"," ","o","n"," ",
      "r","e","t","r","y",":"," ">> \o errorMsg

\* faulty variant of BannerErrorRethrown: every error of the banner check is dropped
BannerErrorDropped(msg) == FALSE

\* main.ts:388: if (e.message.includes('Login failed:')) throw e
BannerErrorRethrown(msg) ==
    Includes(msg, <<"L","o","g","i","n"," ","f","a","i","l","e","d",":">>)

\* main.ts:356-389: error banner after submit; one re-submit on a bot rejection.
\* An error dropped at 388 lets the attempt go on to the validation, which
\* looks at the page again.
AwaitOutcome ==
    /\ worker = "light-rj" /\ pc = "awaitOutcome"
    /\ IF page.banner = "none"
       THEN /\ pc' = "validate"
            /\ h' = [h EXCEPT !.attempt.banner = "none"]
            /\ UNCHANGED <<url, page, thrown>>
       ELSE IF ~IsBotRejection(BannerText(page.banner))
       THEN /\ h' = [h EXCEPT !.attempt.banner = page.banner]
            /\ UNCHANGED <<url, page>>
            /\ IF BannerErrorRethrown(LoginFailedMessage(BannerText(page.banner)))
               THEN /\ thrown' = "Login failed: banner"
                    /\ pc' = "loginCatch"
               ELSE /\ pc' = "validate"
                    /\ UNCHANGED thrown
       ELSE \E retryBtnVisible \in BOOLEAN :
              IF ~retryBtnVisible
              THEN /\ h' = [h EXCEPT !.attempt.banner = page.banner]
                   /\ UNCHANGED <<url, page>>
                   /\ IF BannerErrorRethrown(LoginFailedMessage(BannerText(page.banner)))
                      THEN /\ thrown' = "Login failed: banner"
                           /\ pc' = "loginCatch"
                      ELSE /\ pc' = "validate"
                           /\ UNCHANGED thrown
              ELSE \E seen \in Pages, bannerStays \in BOOLEAN :
                     /\ url' \in PostSubmitUrls
                     /\ h' = [h EXCEPT !.attempt.banner = page.banner,
                                       !.attempt.clicks = @ + 1,
                                       !.attempt.retryBanner = seen.banner # "none"]
                     /\ IF seen.banner # "none"
                           /\ BannerErrorRethrown(
                                  LoginFailedOnRetryMessage(BannerText(seen.banner)))
                        THEN /\ page' = seen
                             /\ thrown' = "Login failed on retry: banner"
                             /\ pc' = "loginCatch"
                        ELSE /\ page' = IF bannerStays THEN seen
                                        ELSE [seen EXCEPT !.banner = "none"]
                             /\ pc' = "validate"
                             /\ UNCHANGED thrown
    /\ UNCHANGED <<worker, input, username, env, status, browser, loginVars, solverVars,
                   discoveryVars, kvStore, dataset>>

\* main.ts:391: page.url().includes('login') || usernameSelector count > 0
FormStillPresent(u, p) ==
    Includes(u, <<"l","o","g","i","n">>) \/ p.inputCount > 0

\* main.ts:422: page.url().toLowerCase().includes('login.aspx')
isLoginUrl(u) ==
    Includes(toLowerCase(u), <<"l","o","g","i","n",".","a","s","p","x">>)

\* main.ts:391-435: the message the validation throws, "" when it passes
ValidationError(u, p) ==
    IF FormStillPresent(u, p) /\ Includes(toLowerCase(u), <<"l","o","g","i","n">>)
    THEN "Login failed or redirected back to login."
    ELSE IF FormStillPresent(u, p) /\ p.banner # "none"
    THEN "Login failed: banner"
    ELSE IF p.banner # "none"
    THEN "Login validation error: Login failed: banner"
    ELSE IF isLoginUrl(u) \/ p.hasWelcome \/ ~p.inputVisible
    THEN ""
    ELSE "Login validation error: Login validation failed."

\* main.ts:391-439: validate the attempt; on success record it
Validate ==
    /\ worker = "light-rj" /\ pc = "validate"
    /\ LET e == ValidationError(url, page) IN
         IF e = ""
         THEN /\ loginSuccess' = TRUE
              /\ dataset' = Append(dataset, [status |-> "success", file |-> Key("", 0)])
              /\ pc' = "loginLoop"
              /\ h' = [h EXCEPT !.validation = "success", !.validated = TRUE]
              /\ UNCHANGED <<thrown, kvStore>>
         ELSE /\ thrown' = e
              /\ kvStore' = kvStore \cup
                    (IF e = "Login failed or redirected back to login."
                     THEN {Key("LOGIN_STATE.png", 0)}
                     ELSE IF e = "Login validation error: Login validation failed."
                     THEN {Key("LOGIN_FAILURE_STATE.png", 0)}
                     ELSE {})
              /\ pc' = "loginCatch"
              /\ h' = [h EXCEPT !.validation = "failure"]
              /\ UNCHANGED <<loginSuccess, dataset>>
    /\ UNCHANGED <<worker, input, username, env, status, browser, url, page, loginAttempts,
                   solverVars, discoveryVars>>

\* faulty variant of AttemptsExhausted: the last failure is retried like the others
AttemptsExhaustedLate(la) == la > maxLoginAttempts

\* main.ts:443: if (loginAttempts >= maxLoginAttempts)
AttemptsExhausted(la) == la >= maxLoginAttempts

\* main.ts:441-448: a failed attempt either ends the login or is retried
LoginCatch ==
    /\ worker = "light-rj" /\ pc = "loginCatch"
    /\ IF AttemptsExhausted(loginAttempts)
       THEN /\ thrown' = "Failed to login after 3 attempts."
            /\ pc' = "mainCatch"
       ELSE /\ pc' = "loginLoop"
            /\ UNCHANGED thrown
    /\ attempts' = 0
    /\ createTaskResponse' = NoResponse
    /\ resultResponse' = NoResponse
    /\ token' = 0
    /\ page' = NoPage
    /\ h' = [h EXCEPT !.validation = "none", !.solver = "idle", !.getTaskResultCalls = 0, !.pollDelay = 0, !.created = 0,
                      !.attempt = NoAttempt]
    /\ UNCHANGED <<worker, downloadUrl, input, username, env, status, browser, url, loginVars,
                   result, installCount, count, i, kvStore, dataset>>

\* Which bill-listing surface an address belongs to.
Surface(u) ==
    IF u = billsUrl THEN "open" ELSE IF u = paidBillsUrl THEN "paid" ELSE "other"

\* faulty variant of CaptureRequested: one of the two fields is enough
CaptureRequestedEither(inp) == inp.installationCode # <<>> \/ inp.referenceMonth # <<>>

\* main.ts:454: if (installationCode && referenceMonth)
CaptureRequested(inp) == inp.installationCode # <<>> /\ inp.referenceMonth # <<>>

\* main.ts:459: !page.url().includes('AGV_Segunda_Via_VW')
NotOnBillsPage(u) ==
    ~Includes(u, <<"A","G","V","_","S","e","g","u","n","d","a","_","V","i","a","_","V","W">>)

\* main.ts:474-480: the two waits are raced; a wait whose element is absent times out
RaceResults(accordion, upToDate) ==
    (IF accordion THEN {"BILLS"} ELSE {}) \cup (IF upToDate THEN {"UP_TO_DATE"} ELSE {})
        \cup (IF ~accordion /\ ~upToDate THEN {""} ELSE {})

\* main.ts:452-480: start of the invoice capture: open-bills page and the race
OpenBills ==
    /\ worker = "light-rj" /\ pc = "capture"
    /\ IF ~CaptureRequested(input)
       THEN /\ pc' = "finally"
            /\ UNCHANGED <<url, thrown, result, h>>
       ELSE \E gotoOk \in BOOLEAN, accordion \in BOOLEAN, upToDate \in BOOLEAN :
              IF NotOnBillsPage(url) /\ ~gotoOk
              THEN /\ thrown' = "page.goto: Timeout 60000ms exceeded."
                   /\ pc' = "mainCatch"
                   /\ h' = [h EXCEPT !.billNavs = @ + 1, !.navs = Append(@, "open")]
                   /\ UNCHANGED <<url, result>>
              ELSE /\ url' = IF NotOnBillsPage(url) THEN billsUrl ELSE url
                   /\ result' \in RaceResults(accordion, upToDate)
                   /\ pc' = "surface"
                   /\ h' = [h EXCEPT !.billNavs = @ + (IF NotOnBillsPage(url) THEN 1 ELSE 0),
                                     !.navs = IF NotOnBillsPage(url)
                                              THEN Append(@, "open") ELSE @,
                                     !.upToDateShown = upToDate]
                   /\ UNCHANGED thrown
    /\ UNCHANGED <<worker, downloadUrl, input, username, env, status, browser, page, loginVars, solverVars,
                   installCount, count, i, kvStore, dataset>>

\* main.ts:482-487: switch to the paid-bills page when the account is up to date
SelectSurface ==
    /\ worker = "light-rj" /\ pc = "surface"
    /\ IF result = "UP_TO_DATE"
       THEN \E gotoOk \in BOOLEAN :
              /\ h' = [h EXCEPT !.billNavs = @ + 1, !.navs = Append(@, "paid")]
              /\ IF gotoOk
                 THEN /\ url' = paidBillsUrl
                      /\ pc' = "lookup"
                      /\ UNCHANGED thrown
                 ELSE /\ thrown' = "page.goto: Timeout 30000ms exceeded."
                      /\ pc' = "mainCatch"
                      /\ UNCHANGED url
       ELSE /\ pc' = "lookup"
            /\ UNCHANGED <<url, thrown, h>>
    /\ UNCHANGED <<worker, input, username, env, status, browser, page, loginVars, solverVars,
                   discoveryVars, kvStore, dataset>>

\* faulty variant of LookupFallsBack: the account-is-current test is inverted
LookupFallsBackWhenCurrent(n, u, res) ==
    /\ n = 0
    /\ Includes(u, <<"A","G","V","_","S","e","g","u","n","d","a","_","V","i","a","_","V","W">>)
    /\ res = "UP_TO_DATE"

\* main.ts:500-502: the lookup is repeated on the paid-bills page
LookupFallsBack(n, u, res) ==
    /\ n = 0
    /\ Includes(u, <<"A","G","V","_","S","e","g","u","n","d","a","_","V","i","a","_","V","W">>)
    /\ res # "UP_TO_DATE"

\* main.ts:513: if (await installLocator.count() === 0) throw
InstallationMissing(n) == n = 0

\* The other installation of the listings: its code ends with the sample code.
longCode == <<"1","9","9","8","8">>

\* The labels (.verde-span) of the entries a bills page can list, in page order.
Listings ==
    {<<>>, <<sampleCode>>, <<longCode>>, <<longCode, sampleCode>>, <<sampleCode, longCode>>}

\* :text-is("code") and text="code": the text of the element is the code
TextIs(label, code) == label = code

\* :has-text("code"): the text of the element contains the code, whatever the case
HasText(label, code) == Includes(toLowerCase(label), toLowerCase(code))

\* main.ts:496-498, 507-509, 600-604: the first entry whose label is the code
\* (<<>> when the locator matches nothing)
FirstTextIs(listing, code) ==
    LET hits == {k \in 1..Len(listing) : TextIs(listing[k], code)}
    IN IF hits = {} THEN <<>>
       ELSE listing[CHOOSE k \in hits : \A m \in hits : k <= m]

\* main.ts:596-598: the first entry whose label contains the code
FirstHasText(listing, code) ==
    LET hits == {k \in 1..Len(listing) : HasText(listing[k], code)}
    IN IF hits = {} THEN <<>>
       ELSE listing[CHOOSE k \in hits : \A m \in hits : k <= m]

\* main.ts:596-605: the broader locator is tried when the first matches nothing
FirstOnPaidFallback(listing, code) ==
    IF FirstHasText(listing, code) # <<>> THEN FirstHasText(listing, code)
    ELSE FirstTextIs(listing, code)

\* How the located entry relates to the requested code.
Accepted(label, code) ==
    IF label = <<>> THEN "none" ELSE IF label = code THEN "exact" ELSE "substring"

\* installLocator.count() of a locator that ends with .first()
LocatorCount(label) == IF label = <<>> THEN 0 ELSE 1

\* main.ts:489-502, 513-515: installation lookup on the current page
Lookup ==
    /\ worker = "light-rj" /\ pc = "lookup"
    /\ \E listing \in Listings :
         LET label == FirstTextIs(listing, input.installationCode)
             n == LocatorCount(label)
         IN
         /\ installCount' = n
         /\ h' = [h EXCEPT !.lookups = Append(@, <<Surface(url), n>>),
                           !.disc.accepted = Accepted(label, input.installationCode)]
         /\ IF LookupFallsBack(n, url, result)
            THEN /\ pc' = "lookupPaid"
                 /\ UNCHANGED thrown
            ELSE IF InstallationMissing(n)
            THEN /\ thrown' = "Installation not found on any checked page."
                 /\ pc' = "mainCatch"
            ELSE /\ pc' = "expand"
                 /\ UNCHANGED thrown
    /\ UNCHANGED <<worker, downloadUrl, input, username, env, status, browser, url, page, loginVars,
                   solverVars, result, count, i, kvStore, dataset>>

\* main.ts:503-515: the lookup repeated on the paid-bills page
LookupPaid ==
    /\ worker = "light-rj" /\ pc = "lookupPaid"
    /\ \E gotoOk \in BOOLEAN, listing \in Listings :
         LET label == FirstTextIs(listing, input.installationCode)
             n == LocatorCount(label)
         IN
         IF ~gotoOk
         THEN /\ thrown' = "page.goto: Timeout 30000ms exceeded."
              /\ pc' = "mainCatch"
              /\ h' = [h EXCEPT !.billNavs = @ + 1, !.navs = Append(@, "paid")]
              /\ UNCHANGED <<url, installCount>>
         ELSE /\ url' = paidBillsUrl
              /\ installCount' = n
              /\ h' = [h EXCEPT !.billNavs = @ + 1,
                                !.navs = Append(@, "paid"),
                                !.lookups = Append(@, <<"paid", n>>),
                                !.disc.accepted = Accepted(label, input.installationCode)]
              /\ IF InstallationMissing(n)
                 THEN /\ thrown' = "Installation not found on any checked page."
                      /\ pc' = "mainCatch"
                 ELSE /\ pc' = "expand"
                      /\ UNCHANGED thrown
    /\ UNCHANGED <<worker, downloadUrl, input, username, env, status, browser, page, loginVars, solverVars,
                   result, count, i, kvStore, dataset>>

\* main.ts:525: if (!await contentDiv.isVisible())
ExpandClickNeeded(visible) == ~visible

\* faulty variant of ExpandNext: content that stays hidden after both clicks is an error
ExpandNextFatal(headerOk, visible1, iconOk, visible2) ==
    IF ~headerOk THEN "mainCatch"
    ELSE IF visible1 THEN "settle"
    ELSE IF ~iconOk THEN "mainCatch"
    ELSE IF visible2 THEN "settle" ELSE "mainCatch"

\* main.ts:527-535: header.click() and icon.click() are awaited outside any
\* catch; the two waits for the content are caught and only logged
ExpandNext(headerOk, visible1, iconOk, visible2) ==
    IF ~headerOk THEN "mainCatch"
    ELSE IF visible1 THEN "settle"
    ELSE IF ~iconOk THEN "mainCatch"
    ELSE "settle"

\* main.ts:527-533: the clicks that were made without an error
ClicksMade(headerOk, visible1, iconOk) ==
    IF ~headerOk THEN 0 ELSE IF visible1 \/ ~iconOk THEN 1 ELSE 2

\* main.ts:517-538: expand the located installation: header click, then icon click
Expand ==
    /\ worker = "light-rj" /\ pc = "expand"
    /\ \E visible \in BOOLEAN, closedFlag \in BOOLEAN, headerOk \in BOOLEAN,
          visible1 \in BOOLEAN, iconOk \in BOOLEAN, visible2 \in BOOLEAN :
         IF ~ExpandClickNeeded(visible)
         THEN /\ h' = [h EXCEPT !.disc.code = "open", !.disc.shown = visible,
                                !.disc.closedFlag = closedFlag,
                                !.disc.shownAfter = visible]
              /\ pc' = "settle"
              /\ UNCHANGED thrown
         ELSE /\ pc' = ExpandNext(headerOk, visible1, iconOk, visible2)
              /\ thrown' = IF pc' = "mainCatch"
                           THEN "locator.click: Timeout 30000ms exceeded." ELSE thrown
              /\ h' = [h EXCEPT !.disc.code = "open", !.disc.shown = visible,
                                !.disc.closedFlag = closedFlag,
                                !.disc.clicks = ClicksMade(headerOk, visible1, iconOk),
                                !.disc.shownAfter =
                                    headerOk /\ (visible1 \/ (iconOk /\ visible2))]
    /\ UNCHANGED <<worker, input, username, env, status, browser, url, page, loginVars,
                   solverVars, discoveryVars, kvStore, dataset>>

\* The loading indicator during the settle: never attached within the short
\* bound, attached and then detached, or attached for longer than the bound
\* of the wait for its detachment.
Spinners == {"never", "detached", "stuck"}

\* main.ts:540-580: content settle: the two waits for .Feedback_AjaxWait are
\* inside one try whose catch is empty, then the rows or the alert are awaited
Settle ==
    /\ worker = "light-rj" /\ pc = "settle"
    /\ \E spinner \in Spinners, rows \in BOOLEAN, alert \in BOOLEAN :
         /\ h' = [h EXCEPT !.disc.spinner = spinner]
         /\ kvStore' = kvStore \cup
              (IF rows THEN {}
               ELSE IF alert THEN {Key("DEBUG_NO_BILLS_ALERT.png", 0)}
               ELSE {Key("DEBUG_EMPTY_ACCORDION.png", 0)})
    /\ pc' = "search"
    /\ UNCHANGED <<worker, input, username, env, status, thrown, browser, url, page, loginVars,
                   solverVars, discoveryVars, dataset>>

\* faulty variant of SearchFallsBack: the current surface is not looked at
SearchFallsBackAnySurface(n, u) == n = 0

\* main.ts:588: count === 0 && !page.url().includes('Comprovante_Conta_Paga')
SearchFallsBack(n, u) ==
    /\ n = 0
    /\ ~Includes(u, <<"C","o","m","p","r","o","v","a","n","t","e","_","C","o","n","t","a","_","P","a","g","a">>)

\* main.ts:582-588: month search in the located installation
MonthSearch ==
    /\ worker = "light-rj" /\ pc = "search"
    /\ \E n \in 0..MaxMatches :
         /\ count' = n
         /\ h' = [h EXCEPT !.searches = Append(@, <<Surface(url), n>>),
                           !.disc = NoDiscovery]
         /\ pc' = IF SearchFallsBack(n, url) THEN "searchPaid" ELSE "found"
    /\ UNCHANGED <<worker, downloadUrl, input, username, env, status, thrown, browser, url, page, loginVars,
                   solverVars, result, installCount, i, kvStore, dataset>>

\* main.ts:589-609, 677-680: go to the paid-bills page and locate the installation again
GotoPaid ==
    /\ worker = "light-rj" /\ pc = "searchPaid"
    /\ \E gotoOk \in BOOLEAN, listing \in Listings :
         LET label == FirstOnPaidFallback(listing, input.installationCode)
         IN
         IF ~gotoOk
         THEN /\ thrown' = "page.goto: Timeout 30000ms exceeded."
              /\ pc' = "mainCatch"
              /\ h' = [h EXCEPT !.billNavs = @ + 1, !.navs = Append(@, "paid")]
              /\ UNCHANGED <<url, installCount, kvStore>>
         ELSE /\ url' = paidBillsUrl
              /\ installCount' = LocatorCount(label)
              /\ UNCHANGED thrown
              /\ IF LocatorCount(label) > 0
                 THEN /\ pc' = "expandPaid"
                      /\ h' = [h EXCEPT !.billNavs = @ + 1, !.navs = Append(@, "paid"),
                                        !.disc.accepted =
                                            Accepted(label, input.installationCode)]
                      /\ UNCHANGED kvStore
                 ELSE /\ pc' = "found"
                      /\ kvStore' = kvStore \cup {Key("DEBUG_PAID_BILLS_PAGE.png", 0)}
                      /\ h' = [h EXCEPT !.billNavs = @ + 1, !.navs = Append(@, "paid")]
    /\ UNCHANGED <<worker, downloadUrl, input, username, env, status, browser, page, loginVars, solverVars,
                   result, count, i, dataset>>

\* main.ts:621: !visible || innerText === ''
IsHidden(visible, empty) == ~visible \/ empty

\* main.ts:623: if (isClosedProp || isHidden)
PaidExpandClickNeeded(isClosedProp, isHidden) == isClosedProp \/ isHidden

\* main.ts:611-639: expand the installation located on the paid-bills page;
\* the errors of the two clicks are dropped
ExpandPaid ==
    /\ worker = "light-rj" /\ pc = "expandPaid"
    /\ \E hasContent \in BOOLEAN, isClosedProp \in BOOLEAN, visible \in BOOLEAN,
          empty \in BOOLEAN, visible1 \in BOOLEAN, hasIcon \in BOOLEAN, visible2 \in BOOLEAN :
         h' = [h EXCEPT
                 !.disc.code = "paid",
                 !.disc.shown = hasContent /\ visible /\ ~empty,
                 !.disc.closedFlag = isClosedProp,
                 !.disc.clicks =
                     IF ~hasContent
                           \/ ~PaidExpandClickNeeded(isClosedProp, IsHidden(visible, empty))
                     THEN 0
                     ELSE IF visible1 \/ ~hasIcon THEN 1 ELSE 2,
                 !.disc.shownAfter =
                     IF ~hasContent THEN FALSE
                     ELSE IF ~PaidExpandClickNeeded(isClosedProp, IsHidden(visible, empty))
                     THEN TRUE
                     ELSE visible1 \/ (hasIcon /\ visible2)]
    /\ pc' = "settlePaid"
    /\ UNCHANGED <<worker, input, username, env, status, thrown, browser, url, page, loginVars,
                   solverVars, discoveryVars, kvStore, dataset>>

\* main.ts:641-664: content settle on the paid-bills page: load, the
\* 'Carregando' alert, the two waits for .Feedback_AjaxWait inside one try
\* whose catch is empty, a fixed delay and the diagnostic screenshot
SettlePaid ==
    /\ worker = "light-rj" /\ pc = "settlePaid"
    /\ \E spinner \in Spinners :
         h' = [h EXCEPT !.disc.spinner = spinner]
    /\ kvStore' = kvStore \cup {Key("DEBUG_PAID_BILLS.png", 0)}
    /\ pc' = "monthPaid"
    /\ UNCHANGED <<worker, input, username, env, status, thrown, browser, url, page, loginVars,
                   solverVars, discoveryVars, dataset>>

\* main.ts:666-676: month search in the installation located on the paid-bills page
MonthSearchPaid ==
    /\ worker = "light-rj" /\ pc = "monthPaid"
    /\ \E n \in 0..MaxMatches :
         /\ count' = n
         /\ h' = [h EXCEPT !.searches = Append(@, <<"paid", n>>),
                           !.disc = NoDiscovery]
    /\ pc' = "found"
    /\ UNCHANGED <<worker, downloadUrl, input, username, env, status, thrown, browser, url, page, loginVars,
                   solverVars, result, installCount, i, kvStore, dataset>>

\* main.ts:683: if (count === 0)
NoBillFound(n) == n = 0

\* main.ts:683-690: no match: save the BILL_NOT_FOUND artifacts; else start the loop
AfterSearch ==
    /\ worker = "light-rj" /\ pc = "found"
    /\ IF NoBillFound(count)
       THEN /\ kvStore' = kvStore \cup {Key("BILL_NOT_FOUND.png", 0),
                                        Key("BILL_NOT_FOUND_DUMP.html", 0)}
            /\ pc' = "finally"
            /\ UNCHANGED i
       ELSE /\ i' = 0
            /\ pc' = "loopHead"
            /\ UNCHANGED kvStore
    /\ UNCHANGED <<worker, downloadUrl, input, username, env, status, thrown, browser, url, page, loginVars,
                   solverVars, result, installCount, count, dataset, h>>

\* main.ts:690: for (let i = 0; i < count; i++)
LoopHead ==
    /\ worker = "light-rj" /\ pc = "loopHead"
    /\ IF i < count
       THEN /\ pc' = "locate"
            /\ h' = [h EXCEPT !.started = @ \cup {i + 1}, !.lastClick = NoClick]
       ELSE /\ pc' = "finally"
            /\ h' = [h EXCEPT !.lastClick = NoClick]
    /\ UNCHANGED <<worker, input, username, env, status, thrown, browser, url, page, loginVars,
                   solverVars, discoveryVars, kvStore, dataset>>

\* main.ts:752: if (downloadBtn && await downloadBtn.count() > 0)
HasDownloadBtn(s1, s2, s3) == s1 \/ s2 \/ s3

\* main.ts:694-752, 850-854: the three locator strategies; without a visible
\* control the diagnostics are saved and the loop goes on
Locate ==
    /\ worker = "light-rj" /\ pc = "locate"
    /\ \E s1 \in BOOLEAN, s2 \in BOOLEAN, s3 \in BOOLEAN :
         IF HasDownloadBtn(s1, s2, s3)
         THEN /\ pc' = "click"
              /\ UNCHANGED <<i, kvStore, h>>
         ELSE /\ kvStore' = kvStore \cup {Key("DEBUG_NO_DL_BTN.png", i + 1),
                                          Key("PAGE_DUMP.html", 0)}
              /\ h' = [h EXCEPT !.noButton = @ \cup {i + 1}]
              /\ i' = i + 1
              /\ pc' = "loopHead"
    /\ UNCHANGED <<worker, downloadUrl, input, username, env, status, thrown, browser, url, page, loginVars,
                   solverVars, result, installCount, count, dataset>>

\* main.ts:776-806: the download observed after the confirmation of the modal
ModalDownload(modal, confirmBtn, late) == modal /\ confirmBtn /\ late

\* faulty variant of NormalDownload: the result of the listener is not tested
NormalDownloadUnchecked(early) == TRUE

\* main.ts:831-833: the download observed by the listener armed before the click
NormalDownload(early) == early

\* A text as one string.
RECURSIVE Str(_)
Str(s) == IF s = <<>> THEN "" ELSE Head(s) \o Str(Tail(s))

\* faulty variant of ReplaceSlashes: the month is used as it was given
KeepSlashes(month) == month

\* main.ts:753: referenceMonth.replace(/\//g, '-')
ReplaceSlashes(month) ==
    [k \in 1..Len(month) |-> IF month[k] = "/" THEN "-" ELSE month[k]]

\* main.ts:753, 810, 837: `invoice_${installationCode}_${month}_${i + 1}.pdf`
FileName(code, month, index) ==
    "invoice_" \o Str(code) \o "_" \o Str(ReplaceSlashes(month)) \o "_"
        \o ToString(index) \o ".pdf"

\* faulty variant of InvoiceKey: the index of the match is not part of the name
InvoiceKeyUnindexed(n) == Key(FileName(input.installationCode, input.referenceMonth, 1), 0)

\* faulty variant of InvoiceKey: the files are numbered in the order they are saved
InvoiceKeyCompact(n) ==
    Key(FileName(input.installationCode, input.referenceMonth, Cardinality(h.stored) + 1), 0)

\* main.ts:810, 837: the key of the match with loop index n
InvoiceKey(n) == Key(FileName(input.installationCode, input.referenceMonth, n + 1), 0)

\* What the portal can send as the file of a download.
pdfBody == <<"%", "P", "D", "F", "-", "1">>
htmlBody == <<"<", "h", "t", "m", "l", ">">>
DownloadBodies == {pdfBody, htmlBody}

\* When a download (or popup) event can fire relative to the steps around a
\* click: right after the click, while the modal check runs, later but within
\* the bound of the listener, or not within the bound.
Moments == {"atClick", "duringCheck", "later", "never"}

\* The step during which an event of the given moment fires.
StepOf(m) ==
    CASE m = "atClick" -> "click"
      [] m = "duringCheck" -> "check"
      [] OTHER -> "await"

Index(steps, x) == CHOOSE k \in 1..Len(steps) : steps[k] = x

\* page.waitForEvent resolves with an event that fires after it was called
\* and within its timeout.
Received(steps, m) ==
    m # "never" /\ Index(steps, "arm") < Index(steps, StepOf(m))

\* faulty variant of ClickSteps: the listener is armed after the modal check
ClickStepsArmedLate == <<"click", "check", "arm", "await">>

\* main.ts:766-830: waitForEvent('download') is called, then the click, then
\* the modal check, then the promise is awaited
ClickSteps == <<"arm", "click", "check", "await">>

\* main.ts:797-800: Promise.all([waitForEvent('download'), confirmBtn.click()])
ConfirmSteps == <<"arm", "click", "await">>

\* main.ts:762-849: click the control, handle the reason modal, capture the download
ClickAndCapture ==
    /\ worker = "light-rj" /\ pc = "click"
    /\ \E modal \in BOOLEAN, confirmBtn \in BOOLEAN, fire \in Moments,
          fireConfirm \in Moments \ {"duringCheck"}, body \in DownloadBodies :
         LET early == Received(ClickSteps, fire)
             late == Received(ConfirmSteps, fireConfirm)
             fired == fire # "never" \/ (modal /\ confirmBtn /\ fireConfirm # "never")
         IN
         /\ h' = [h EXCEPT !.silentAt = IF fired THEN @ ELSE i + 1,
                           !.stored = IF ModalDownload(modal, confirmBtn, late)
                                         \/ NormalDownload(early)
                                      THEN @ \cup {<<InvoiceKey(i), body>>} ELSE @,
                           !.lastClick =
                               [match |-> i + 1, modal |-> modal, moment |-> fire,
                                fired |-> fired,
                                saved |-> IF ModalDownload(modal, confirmBtn, late)
                                          THEN "confirm"
                                          ELSE IF NormalDownload(early) THEN "first"
                                          ELSE "none"]]
         /\ IF ModalDownload(modal, confirmBtn, late) \/ NormalDownload(early)
            THEN /\ kvStore' = kvStore \cup {InvoiceKey(i)}
                 /\ dataset' = Append(dataset, [status |-> "downloaded",
                                                file |-> InvoiceKey(i)])
                 /\ i' = i + 1
                 /\ pc' = "loopHead"
                 /\ UNCHANGED thrown
            ELSE /\ thrown' = "Download event timeout"
                 /\ pc' = "mainCatch"
                 /\ UNCHANGED <<i, kvStore, dataset>>
    /\ UNCHANGED <<worker, downloadUrl, input, username, env, status, browser, url, page, loginVars,
                   solverVars, result, installCount, count>>

\* faulty variant of MainCatch: the catch block discards what the run had stored
MainCatchRollsBack ==
    /\ worker = "light-rj" /\ pc = "mainCatch"
    /\ \E shot \in BOOLEAN, dump \in BOOLEAN :
         /\ kvStore' = (IF shot THEN {Key("ERROR_SCREENSHOT.png", 0)} ELSE {})
               \cup (IF shot /\ dump THEN {Key("PAGE_DUMP.html", 0)} ELSE {})
         /\ h' = [h EXCEPT !.diag = IF shot /\ dump THEN "saved" ELSE "failed",
                           !.raised = thrown, !.lastClick = NoClick,
                           !.disc = NoDiscovery, !.stored = {}]
    /\ dataset' = <<>>
    /\ pc' = "fail"
    /\ UNCHANGED <<worker, input, username, env, status, thrown, browser, url, page, loginVars,
                   solverVars, discoveryVars>>

\* main.ts:858-863: the error diagnostics; a failure to save them is ignored
MainCatch ==
    /\ worker = "light-rj" /\ pc = "mainCatch"
    /\ \E shot \in BOOLEAN, dump \in BOOLEAN :
         /\ kvStore' = kvStore
               \cup (IF shot THEN {Key("ERROR_SCREENSHOT.png", 0)} ELSE {})
               \cup (IF shot /\ dump THEN {Key("PAGE_DUMP.html", 0)} ELSE {})
         /\ h' = [h EXCEPT !.diag = IF shot /\ dump THEN "saved" ELSE "failed",
                           !.raised = thrown, !.lastClick = NoClick,
                           !.disc = NoDiscovery]
    /\ pc' = "fail"
    /\ UNCHANGED <<worker, input, username, env, status, thrown, browser, url, page, loginVars,
                   solverVars, discoveryVars, dataset>>

\* faulty variant of FailMessage: a failed capture replaces the message
FailMessageOfCapture(e, diag) == IF diag = "failed" THEN "capture failed" ELSE e

\* main.ts:864: e.message of the error caught at 858; the error of the capture
\* was dropped by the empty catch at 863
FailMessage(e, diag) == e

\* main.ts:864: await Actor.fail(e.message)
Fail ==
    /\ worker = "light-rj" /\ pc = "fail"
    /\ ActorFail(FailMessage(thrown, h.diag))
    /\ UNCHANGED <<worker, input, username, env, browser, url, page, loginVars, solverVars,
                   discoveryVars, kvStore, dataset>>

\* main.ts:866: if (browser) await browser.close()
CloseBrowser ==
    /\ worker = "light-rj" /\ pc = "finally"
    /\ browser' = "closed"
    /\ pc' = "exit"
    /\ UNCHANGED <<worker, input, username, env, status, thrown, url, page, loginVars,
                   solverVars, discoveryVars, kvStore, dataset, h>>

\* main.ts:867: await Actor.exit()
Exit ==
    /\ worker = "light-rj" /\ pc = "exit"
    /\ ActorExit
    /\ UNCHANGED <<worker, input, username, env, thrown, browser, url, page, loginVars,
                   solverVars, discoveryVars, kvStore, dataset>>

(***************************************************************************)
(* Light RJ HTTP worker.                                                   *)
(***************************************************************************)
\* bound: the most download requests one run is followed through
MaxDownloadGets == 3

\* light-rj-http main.ts:75: !input || !input.username || !input.password
HttpInputMissing(inp) == inp.isNull \/ inp.username = <<>> \/ ~inp.password

\* light-rj-http main.ts:74-86: input check and username
HttpGetInput ==
    /\ worker = "light-rj-http" /\ pc = "getInput"
    /\ IF HttpInputMissing(input)
       THEN /\ thrown' = "Missing required input: username, password"
            /\ pc' = "httpCatch"
            /\ UNCHANGED username
       ELSE /\ pc' = "step1"
            /\ username' = HttpUsername(input.username)
            /\ UNCHANGED thrown
    /\ UNCHANGED <<worker, input, env, status, browser, url, page, loginVars,
                   solverVars, discoveryVars, kvStore, dataset, h>>

\* light-rj-http main.ts:91-211: GET the login page, extract the view state,
\* the field names and the API key
HttpStep1 ==
    /\ worker = "light-rj-http" /\ pc = "step1"
    /\ \E got \in BOOLEAN, osvState \in BOOLEAN, fieldNames \in BOOLEAN,
          dataSitekey \in SiteKeys :
         /\ h' = [h EXCEPT !.attempt.siteKey =
                               IF got /\ osvState /\ fieldNames /\ acKey
                                      /\ HttpSiteKey(dataSitekey) # ""
                               THEN Yielded("", dataSitekey) ELSE @]
         /\ IF ~got
            THEN /\ thrown' = "Request failed"
                 /\ pc' = "httpCatch"
                 /\ UNCHANGED kvStore
            ELSE IF ~osvState
            THEN /\ kvStore' = kvStore \cup {Key("DEBUG_LOGIN_PAGE.html", 0)}
                 /\ thrown' = "Could not extract __OSVSTATE from login page"
                 /\ pc' = "httpCatch"
            ELSE IF ~fieldNames
            THEN /\ kvStore' = kvStore \cup {Key("DEBUG_LOGIN_PAGE.html", 0)}
                 /\ thrown' = "Could not find username/password field names in login page HTML"
                 /\ pc' = "httpCatch"
            ELSE IF ~acKey
            THEN /\ thrown' = "Anti-Captcha key not provided."
                 /\ pc' = "httpCatch"
                 /\ UNCHANGED kvStore
            ELSE /\ pc' = "httpCreateTask"
                 /\ UNCHANGED <<thrown, kvStore>>
    /\ UNCHANGED <<worker, input, username, env, status, browser, url, page, loginVars,
                      solverVars, discoveryVars, dataset>>

\* light-rj-http main.ts:16-30
HttpCreateTask ==
    /\ worker = "light-rj-http" /\ pc = "httpCreateTask"
    /\ \E sent \in BOOLEAN, r \in CreateTaskResponses :
         IF ~sent
         THEN /\ thrown' = "Request failed"
              /\ pc' = "httpCatch"
              /\ h' = [h EXCEPT !.createTaskCalls = @ + 1, !.created = @ + 1, !.solver = "raised"]
              /\ UNCHANGED createTaskResponse
         ELSE /\ createTaskResponse' = r
              /\ IF HttpCreateTaskRejected(r)
                 THEN /\ thrown' = "Anti-Captcha Error"
                      /\ pc' = "httpCatch"
                      /\ h' = [h EXCEPT !.createTaskCalls = @ + 1, !.created = @ + 1, !.solver = "raised"]
                 ELSE /\ pc' = "httpPoll"
                      /\ h' = [h EXCEPT !.createTaskCalls = @ + 1, !.created = @ + 1, !.solver = "polling"]
                      /\ UNCHANGED thrown
    /\ UNCHANGED <<worker, input, username, env, status, browser, url, page, loginVars,
                   attempts, resultResponse, token, discoveryVars, kvStore, dataset>>

\* light-rj-http main.ts:32-54
HttpPoll ==
    /\ worker = "light-rj-http" /\ pc = "httpPoll"
    /\ IF HttpPollAgain(attempts)
       THEN /\ attempts' = attempts + 1
            /\ \E r \in TaskResultResponses :
                 /\ resultResponse' = r
                 /\ CASE HttpResultOutcome(r) = "throw" ->
                           /\ thrown' = "Anti-Captcha Task Error"
                           /\ pc' = "httpCatch"
                           /\ h' = [h EXCEPT !.attempt = NoAttempt, !.getTaskResultCalls = @ + 1, !.pollDelay = @ + HttpPollDelay(attempts),
                                             !.solver = "raised"]
                           /\ UNCHANGED token
                      [] HttpResultOutcome(r) = "return" ->
                           /\ token' = h.createTaskCalls
                           /\ pc' = "httpLogin"
                           /\ h' = [h EXCEPT !.attempt = NoAttempt, !.getTaskResultCalls = @ + 1, !.pollDelay = @ + HttpPollDelay(attempts),
                                             !.solver = "returned"]
                           /\ UNCHANGED thrown
                      [] OTHER ->
                           /\ h' = [h EXCEPT !.attempt = NoAttempt, !.getTaskResultCalls = @ + 1, !.pollDelay = @ + HttpPollDelay(attempts)]
                           /\ UNCHANGED <<pc, thrown, token>>
       ELSE /\ thrown' = "Anti-Captcha timeout."
            /\ pc' = "httpCatch"
            /\ h' = [h EXCEPT !.attempt = NoAttempt, !.solver = "raised"]
            /\ UNCHANGED <<attempts, resultResponse, token>>
    /\ UNCHANGED <<worker, input, username, env, status, browser, url, page, loginVars,
                   createTaskResponse, discoveryVars, kvStore, dataset>>

\* light-rj-http main.ts:326-329: both session cookies are in the store
HttpLoginValid(hasSessionCookie, hasUsernameCookie) ==
    hasSessionCookie /\ hasUsernameCookie

\* light-rj-http main.ts:216-344: POST the login form, collect the cookies, validate
HttpLogin ==
    /\ worker = "light-rj-http" /\ pc = "httpLogin"
    /\ attempts' = 0
    /\ createTaskResponse' = NoResponse
    /\ resultResponse' = NoResponse
    /\ \E posted \in BOOLEAN, sid \in BOOLEAN, user \in BOOLEAN, errorText \in BOOLEAN :
         IF ~posted
         THEN /\ thrown' = "Request failed"
              /\ pc' = "httpCatch"
              /\ h' = [h EXCEPT !.solver = "idle", !.getTaskResultCalls = 0, !.pollDelay = 0, !.created = 0]
              /\ UNCHANGED kvStore
         ELSE IF ~HttpLoginValid(sid, user)
         THEN /\ pc' = "httpCatch"
              /\ h' = [h EXCEPT !.validation = "failure", !.solver = "idle",
                                !.getTaskResultCalls = 0, !.pollDelay = 0, !.created = 0]
              /\ IF errorText
                 THEN /\ thrown' = "Login failed: banner"
                      /\ UNCHANGED kvStore
                 ELSE /\ thrown' = "Login failed: session cookies not set."
                      /\ kvStore' = kvStore \cup {Key("DEBUG_LOGIN_RESPONSE.html", 0)}
         ELSE /\ pc' = "httpAfterLogin"
              /\ h' = [h EXCEPT !.validation = "success", !.validated = TRUE,
                                !.solver = "idle", !.getTaskResultCalls = 0, !.pollDelay = 0, !.created = 0]
              /\ UNCHANGED <<thrown, kvStore>>
    /\ UNCHANGED <<worker, input, username, env, status, browser, url, page, loginVars,
                   token, discoveryVars, dataset>>

\* light-rj-http main.ts:346: !installationCode || !referenceMonth
HttpLoginOnly(inp) == inp.installationCode = <<>> \/ inp.referenceMonth = <<>>

\* The text of a bills page that lists the given labels.
RECURSIVE PageText(_)
PageText(listing) ==
    IF listing = <<>> THEN <<"<", "/", "d", "i", "v", ">">>
    ELSE <<"<", "s", "p", "a", "n", ">">> \o Head(listing) \o PageText(Tail(listing))

\* light-rj-http main.ts:373: pageText.includes(installationCode)
hasInstallation(pageText, code) == Includes(pageText, code)

\* light-rj-http main.ts:346-381: a login-only run ends here; else GET the
\* paid-bills page and look for the installation code in its text
HttpStep3 ==
    /\ worker = "light-rj-http" /\ pc = "httpAfterLogin"
    /\ IF HttpLoginOnly(input)
       THEN /\ dataset' = Append(dataset, [status |-> "login_success", file |-> Key("", 0)])
            /\ ActorExit
            /\ UNCHANGED <<thrown, installCount, kvStore>>
       ELSE \E got \in BOOLEAN, listing \in Listings :
              LET n == IF hasInstallation(PageText(listing), input.installationCode)
                       THEN 1 ELSE 0
              IN
              /\ UNCHANGED <<status, dataset>>
              /\ IF ~got
                 THEN /\ thrown' = "Request failed"
                      /\ pc' = "httpCatch"
                      /\ h' = [h EXCEPT !.billNavs = @ + 1]
                      /\ UNCHANGED <<installCount, kvStore>>
                 ELSE /\ installCount' = n
                      /\ h' = [h EXCEPT !.billNavs = @ + 1,
                                        !.lookups = Append(@, <<"paid", n>>),
                                        !.disc.accepted =
                                            IF n = 0 THEN "none"
                                            ELSE IF \E k \in 1..Len(listing) :
                                                       listing[k] = input.installationCode
                                            THEN "exact" ELSE "substring"]
                      /\ IF n = 0
                         THEN /\ kvStore' = kvStore \cup {Key("DEBUG_BILLS_PAGE.html", 0)}
                              /\ thrown' = "Installation not found on Paid Bills page."
                              /\ pc' = "httpCatch"
                         ELSE /\ pc' = "httpMonth"
                              /\ UNCHANGED <<thrown, kvStore>>
    /\ UNCHANGED <<worker, downloadUrl, input, username, env, browser, url, page, loginVars, solverVars,
                   result, count, i>>

\* Another reference month than the sample.
otherMonth == <<"0","4","/","2","0","2","5">>

\* The bill records a page (or an AJAX response) can carry, in page order. A
\* record is a link to ModalDownload_ComprovanteConta.aspx ("modal"), a
\* card-accordion block with a download link ("card") or one with an OsAjax
\* download handler ("ajaxCard").
BillRecords ==
    [kind : {"modal", "card", "ajaxCard"}, code : {sampleCode, longCode},
     month : {sampleMonth, otherMonth}]

BillPages ==
    {<<>>} \cup {<<r>> : r \in BillRecords}
           \cup {<<r1, r2>> : r1 \in BillRecords, r2 \in BillRecords}

\* The query string of the link of a record.
LinkUrl(rec) == <<"?", "C", "=">> \o rec.code \o <<"&", "M", "=">> \o rec.month

\* light-rj-http main.ts:384, 436: html.includes(referenceMonth)
HasMonth(html, month) == \E k \in 1..Len(html) : Includes(html[k].month, month)

\* light-rj-http main.ts:510-518: the ModalDownload links whose URL includes the code
ModalHits(html, code) ==
    {k \in 1..Len(html) : html[k].kind = "modal" /\ Includes(LinkUrl(html[k]), code)}

\* light-rj-http main.ts:524-530: the card-accordion blocks whose markup includes the month
CardHits(html, month) ==
    {k \in 1..Len(html) : html[k].kind \in {"card", "ajaxCard"}
                            /\ Includes(html[k].month, month)}

\* light-rj-http main.ts:507-555: the record whose link extractDownloadUrl
\* returns (0: null): the first ModalDownload link of the installation, else
\* the last card that shows the month
ExtractedIndex(html, month, code) ==
    IF ModalHits(html, code) # {}
    THEN CHOOSE k \in ModalHits(html, code) : \A m \in ModalHits(html, code) : k <= m
    ELSE IF CardHits(html, month) # {}
    THEN CHOOSE k \in CardHits(html, month) : \A m \in CardHits(html, month) : k >= m
    ELSE 0

\* light-rj-http main.ts:507-555: the kind of URL that is returned
extractDownloadUrl(html, month, code) ==
    LET k == ExtractedIndex(html, month, code)
    IN IF k = 0 THEN "none" ELSE IF html[k].kind = "ajaxCard" THEN "AJAX" ELSE "link"

\* How the record of the extracted link relates to the request.
Picked(html, month, code) ==
    LET k == ExtractedIndex(html, month, code)
    IN IF k = 0 THEN "none"
       ELSE IF html[k].code # code THEN "otherInstallation"
       ELSE IF html[k].month # month THEN "otherMonth"
       ELSE "target"

\* light-rj-http main.ts:481-505: findAccordionClickTarget returns matches[0],
\* the handler of the first entry of the page
findAccordionClickTarget(listing, code) ==
    IF listing = <<>> THEN "none" ELSE IF listing[1] = code THEN "exact" ELSE "other"

\* light-rj-http main.ts:384-468: find the month in the page or in the AJAX
\* expansion of the accordion, then the download link
HttpFindMonth ==
    /\ worker = "light-rj-http" /\ pc = "httpMonth"
    /\ \E inInitial \in BOOLEAN, bills \in BillPages, listing \in Listings,
          target \in BOOLEAN, posted \in BOOLEAN :
         LET pageBills == IF inInitial THEN bills ELSE <<>>
             hasMonth == HasMonth(pageBills, input.referenceMonth)
             ajaxHasMonth == HasMonth(bills, input.referenceMonth)
             html == IF hasMonth THEN pageBills ELSE bills
             u == extractDownloadUrl(html, input.referenceMonth, input.installationCode)
             picked == Picked(html, input.referenceMonth, input.installationCode)
             trigger == findAccordionClickTarget(listing, input.installationCode)
         IN
         /\ hasInstallation(PageText(listing), input.installationCode)
         /\ IF hasMonth
            THEN /\ h' = [h EXCEPT !.searches = Append(@, <<"paid", 1>>),
                                   !.disc = NoDiscovery, !.disc.picked = picked]
                 /\ IF u # "none"
                    THEN /\ downloadUrl' = u
                         /\ pc' = "httpDownload"
                         /\ UNCHANGED <<thrown, kvStore>>
                    ELSE /\ kvStore' = kvStore \cup {Key("DEBUG_BILLS_PAGE.html", 0)}
                         /\ thrown' = "Month found but could not extract download link."
                         /\ pc' = "httpCatch"
                         /\ UNCHANGED downloadUrl
            ELSE IF ~target
            THEN /\ kvStore' = kvStore \cup {Key("DEBUG_BILLS_PAGE.html", 0)}
                 /\ thrown' = "Could not find accordion click target for AJAX expansion."
                 /\ pc' = "httpCatch"
                 /\ h' = [h EXCEPT !.searches = Append(@, <<"paid", 0>>),
                                   !.disc = NoDiscovery]
                 /\ UNCHANGED downloadUrl
            ELSE IF ~posted
            THEN /\ thrown' = "Request failed"
                 /\ pc' = "httpCatch"
                 /\ h' = [h EXCEPT !.searches = Append(@, <<"paid", 0>>),
                                   !.disc = NoDiscovery, !.disc.trigger = trigger,
                                   !.billNavs = @ + 1]
                 /\ UNCHANGED <<downloadUrl, kvStore>>
            ELSE IF ~ajaxHasMonth
            THEN /\ kvStore' = kvStore \cup {Key("DEBUG_AJAX_RESPONSE.html", 0)}
                 /\ thrown' = "Month not found after AJAX expansion."
                 /\ pc' = "httpCatch"
                 /\ h' = [h EXCEPT !.searches = Append(@, <<"paid", 0>>),
                                   !.disc = NoDiscovery, !.disc.trigger = trigger,
                                   !.billNavs = @ + 1]
                 /\ UNCHANGED downloadUrl
            ELSE /\ h' = [h EXCEPT !.searches = Append(@, <<"paid", 1>>),
                                   !.disc = NoDiscovery, !.disc.trigger = trigger,
                                   !.disc.picked = picked,
                                   !.billNavs = @ + 1]
                 /\ IF u # "none"
                    THEN /\ downloadUrl' = u
                         /\ pc' = "httpDownload"
                         /\ UNCHANGED <<thrown, kvStore>>
                    ELSE /\ kvStore' = kvStore \cup {Key("DEBUG_AJAX_RESPONSE.html", 0)}
                         /\ thrown' = "Could not find download link in AJAX response."
                         /\ pc' = "httpCatch"
                         /\ UNCHANGED downloadUrl
    /\ UNCHANGED <<worker, input, username, env, status, browser, url, page, loginVars,
                   solverVars, result, installCount, count, i, dataset>>

\* What the portal can answer to the download request.
shortBody == <<"%", "P", "D", "F">>
nearBody == <<"%", "P", "D", "F", "x", "1">>
ResponseBodies == {pdfBody, htmlBody, shortBody, nearBody, <<>>}

\* light-rj-http main.ts:590: buffer.toString('utf-8', 0, 5)
Header(body) == SubSeq(body, 1, IF Len(body) < 5 THEN Len(body) ELSE 5)

\* faulty variant of IsPdf: only four bytes are compared
IsPdfFourBytes(body) ==
    SubSeq(body, 1, IF Len(body) < 4 THEN Len(body) ELSE 4) = <<"%", "P", "D", "F">>

\* light-rj-http main.ts:590-591: header !== '%PDF-'
IsPdf(body) == Header(body) = <<"%", "P", "D", "F", "-">>

\* What the first a[href*=".pdf"], a[href*="Download"] or iframe[src*=".pdf"]
\* of an intermediate page can point to ("none": no such element): the URL
\* that was just fetched, or another one.
PdfLinks == {"none", "link", "link2"}

\* light-rj-http main.ts:598-607: only markup holds a link; the link is
\* followed whatever was fetched before
FollowsLink(body, pdfUrl) == body = htmlBody /\ pdfUrl # "none"

\* The download requests are counted up to MaxDownloadGets.
CountGet(n) == IF n < MaxDownloadGets THEN n + 1 ELSE n

\* light-rj-http main.ts:557-629: one call of downloadPdf (a further link found
\* in a non-PDF page is followed by a recursive call)
HttpDownloadPdf ==
    /\ worker = "light-rj-http" /\ pc = "httpDownload"
    /\ IF downloadUrl = "AJAX"
       THEN /\ thrown' = "AJAX download not implemented yet."
            /\ pc' = "httpCatch"
            /\ UNCHANGED <<kvStore, dataset, h, downloadUrl>>
       ELSE \E got \in BOOLEAN, body \in ResponseBodies, pdfUrl \in PdfLinks :
              IF ~got
              THEN /\ thrown' = "Request failed"
                   /\ pc' = "httpCatch"
                   /\ h' = [h EXCEPT !.downloadGets = CountGet(@), !.lastBody = {}]
                   /\ UNCHANGED <<kvStore, dataset, downloadUrl>>
              ELSE IF IsPdf(body)
              THEN /\ kvStore' = kvStore \cup {InvoiceKey(0)}
                   /\ dataset' = Append(dataset, [status |-> "downloaded",
                                                  file |-> InvoiceKey(0)])
                   /\ pc' = "httpFinally"
                   /\ h' = [h EXCEPT !.downloadGets = CountGet(@), !.lastBody = {body},
                                     !.stored = @ \cup {<<InvoiceKey(0), body>>}]
                   /\ UNCHANGED <<thrown, downloadUrl>>
              ELSE IF FollowsLink(body, pdfUrl)
              THEN /\ downloadUrl' = pdfUrl
                   /\ kvStore' = kvStore \cup {Key("DEBUG_DOWNLOAD_RESPONSE.html", 0)}
                   /\ h' = [h EXCEPT !.downloadGets = CountGet(@), !.lastBody = {body}]
                   /\ UNCHANGED <<pc, thrown, dataset>>
              ELSE /\ kvStore' = kvStore \cup {Key("DEBUG_DOWNLOAD_RESPONSE.html", 0)}
                   /\ thrown' = "Downloaded content is not a PDF."
                   /\ pc' = "httpCatch"
                   /\ h' = [h EXCEPT !.downloadGets = CountGet(@), !.lastBody = {body}]
                   /\ UNCHANGED <<dataset, downloadUrl>>
    /\ UNCHANGED <<worker, input, username, env, status, browser, url, page, loginVars,
                   solverVars, result, installCount, count, i>>

\* light-rj-http main.ts:470-472
HttpCatch ==
    /\ worker = "light-rj-http" /\ pc = "httpCatch"
    /\ ActorFail(thrown)
    /\ UNCHANGED <<worker, input, username, env, browser, url, page, loginVars, solverVars,
                   discoveryVars, kvStore, dataset>>

\* light-rj-http main.ts:473-475
HttpFinally ==
    /\ worker = "light-rj-http" /\ pc = "httpFinally"
    /\ ActorExit
    /\ UNCHANGED <<worker, input, username, env, thrown, browser, url, page, loginVars,
                   solverVars, discoveryVars, kvStore, dataset>>

(***************************************************************************)
(* Equatorial browser worker (src/unnamed/part_001, second file).          *)
(***************************************************************************)
\* part_001:73-98: without uc or cpf the top-level throw ends the process
\* before a browser exists
EqGetInput ==
    /\ worker = "equatorial" /\ pc = "getInput"
    /\ IF input.isNull \/ input.username = <<>> \/ ~input.password
       THEN /\ status' = "FAILED"
            /\ pc' = "exited"
            /\ thrown' = "UC e CPF sao obrigatorios!"
            /\ h' = [h EXCEPT !.closedAtReport = browser]
            /\ UNCHANGED browser
       ELSE /\ browser' = "open"
            /\ pc' = "eqBody"
            /\ UNCHANGED <<status, thrown, h>>
    /\ UNCHANGED <<worker, input, username, env, url, page, loginVars, solverVars,
                   discoveryVars, kvStore, dataset>>

\* part_001:263-266: Promise.all([page.waitForEvent('popup'), row...click()])
PopupSteps == <<"arm", "click", "await">>

\* part_001:274-276: downloadPromise = popup.waitForEvent('download');
\* await btnFinal.click(); download = await downloadPromise
FinalSteps == <<"arm", "click", "await">>

\* part_001:135-291: login, history page, modals, download; any step can throw
EqBody ==
    /\ worker = "equatorial" /\ pc = "eqBody"
    /\ \E outcome \in {"ok", "Login falhou", "Fatura nao encontrada", "Timeout"},
          firePopup \in Moments \ {"duringCheck"}, fire \in Moments \ {"duringCheck"} :
         IF outcome = "ok"
         THEN LET got == Received(PopupSteps, firePopup) /\ Received(FinalSteps, fire)
              IN
              /\ h' = [h EXCEPT !.validated = TRUE,
                                !.lastClick =
                                    [match |-> 1, modal |-> FALSE, moment |-> fire,
                                     fired |-> firePopup # "never" /\ fire # "never",
                                     saved |-> IF got THEN "first" ELSE "none"]]
              /\ IF got
                 THEN /\ kvStore' = kvStore \cup {Key("FATURA", 1)}
                      /\ dataset' = Append(dataset, [status |-> "success",
                                                     file |-> Key("FATURA", 1)])
                      /\ pc' = "eqFinally"
                      /\ UNCHANGED thrown
                 ELSE /\ thrown' = "Timeout"
                      /\ pc' = "eqCatch"
                      /\ UNCHANGED <<kvStore, dataset>>
         ELSE /\ thrown' = outcome
              /\ pc' = "eqCatch"
              /\ h' = [h EXCEPT !.validated = (outcome # "Login falhou")]
              /\ UNCHANGED <<kvStore, dataset>>
    /\ UNCHANGED <<worker, input, username, env, status, browser, url, page, loginVars,
                   solverVars, discoveryVars>>

\* part_001:293-299: the error screenshot; a failure to save it is ignored
EqCatch ==
    /\ worker = "equatorial" /\ pc = "eqCatch"
    /\ \E shot \in BOOLEAN :
         /\ kvStore' = kvStore \cup (IF shot THEN {Key("ERROR_SCREENSHOT.png", 0)} ELSE {})
         /\ h' = [h EXCEPT !.diag = IF shot THEN "saved" ELSE "failed", !.raised = thrown]
    /\ pc' = "eqFail"
    /\ UNCHANGED <<worker, input, username, env, status, thrown, browser, url, page, loginVars,
                   solverVars, discoveryVars, dataset>>

\* part_001:300: await Actor.fail(error.message)
EqFail ==
    /\ worker = "equatorial" /\ pc = "eqFail"
    /\ ActorFail(thrown)
    /\ UNCHANGED <<worker, input, username, env, browser, url, page, loginVars, solverVars,
                   discoveryVars, kvStore, dataset>>

\* part_001:302-304: browser.close()
EqCloseBrowser ==
    /\ worker = "equatorial" /\ pc = "eqFinally"
    /\ browser' = "closed"
    /\ pc' = "eqExit"
    /\ UNCHANGED <<worker, input, username, env, status, thrown, url, page, loginVars,
                   solverVars, discoveryVars, kvStore, dataset, h>>

\* part_001:305: await Actor.exit()
EqExit ==
    /\ worker = "equatorial" /\ pc = "eqExit"
    /\ ActorExit
    /\ UNCHANGED <<worker, input, username, env, thrown, browser, url, page, loginVars,
                   solverVars, discoveryVars, kvStore, dataset>>

(***************************************************************************)
(* The run.                                                                *)
(***************************************************************************)
Next ==
    \/ GetInput \/ Launch \/ OuterCatch \/ LoginLoop \/ Navigate
    \/ FillAndFindSiteKey \/ CreateTask \/ Poll \/ InjectAndSettle \/ Submit
    \/ AwaitOutcome \/ Validate \/ LoginCatch
    \/ OpenBills \/ SelectSurface \/ Lookup \/ LookupPaid \/ Expand \/ Settle
    \/ MonthSearch \/ GotoPaid \/ ExpandPaid \/ SettlePaid \/ MonthSearchPaid
    \/ AfterSearch \/ LoopHead \/ Locate
    \/ ClickAndCapture \/ MainCatch \/ Fail \/ CloseBrowser \/ Exit
    \/ HttpGetInput \/ HttpStep1 \/ HttpCreateTask \/ HttpPoll \/ HttpLogin
    \/ HttpStep3 \/ HttpFindMonth \/ HttpDownloadPdf \/ HttpCatch \/ HttpFinally
    \/ EqGetInput \/ EqBody \/ EqCatch \/ EqFail \/ EqCloseBrowser \/ EqExit

Spec == Init /\ [][Next]_vars


(***************************************************************************)
(* The username normalisation of the two Light RJ workers on its own, over *)
(* every username of a bounded length.                                     *)
(***************************************************************************)
\* bound: the longest username
MaxNameLen == 3

NameChars == {"1", "2", "a", "@", " ", "."}

Usernames == UNION {[1..n -> NameChars] : n \in 1..MaxNameLen}

NormInit ==
    /\ worker \in {"light-rj", "light-rj-http"}
    /\ pc = "normalize"
    /\ input \in [isNull : {FALSE}, username : Usernames, password : {TRUE},
                  antiCaptchaKey : {TRUE}, installationCode : {<<>>},
                  referenceMonth : {<<>>}]
    /\ username = input.username
    /\ env = [ANTI_CAPTCHA_KEY |-> FALSE]
    /\ status = "RUNNING"
    /\ thrown = ""
    /\ browser = "none"
    /\ url = <<>>
    /\ page = NoPage
    /\ loginSuccess = FALSE
    /\ loginAttempts = 0
    /\ attempts = 0
    /\ createTaskResponse = NoResponse
    /\ resultResponse = NoResponse
    /\ token = 0
    /\ result = ""
    /\ installCount = 0
    /\ count = 0
    /\ i = 0
    /\ downloadUrl = "none"
    /\ kvStore = {}
    /\ dataset = <<>>
    /\ h = InitHistory

\* light-rj main.ts:162-181, 224-225: the statement is executed once in every
\* login attempt, and its result and the password of the input are given to fillInput
NormalizeBrowser ==
    /\ worker = "light-rj" /\ pc \in {"normalize", "normalized"}
    /\ LoopCondition(loginSuccess, loginAttempts)
    /\ loginAttempts' = loginAttempts + 1
    /\ username' = CleanUsername(username)
    /\ h' = [h EXCEPT !.typed = Append(@, [username |-> username',
                                           password |-> input.password])]
    /\ pc' = "normalized"
    /\ UNCHANGED <<worker, input, env, status, thrown, browser, url, page, loginSuccess,
                   solverVars, discoveryVars, kvStore, dataset>>

\* light-rj-http main.ts:82-86
NormalizeHttp ==
    /\ worker = "light-rj-http" /\ pc = "normalize"
    /\ username' = HttpUsername(input.username)
    /\ pc' = "normalized"
    /\ UNCHANGED <<worker, input, env, status, thrown, browser, url, page, loginVars,
                   solverVars, discoveryVars, kvStore, dataset, h>>

NormNext == NormalizeBrowser \/ NormalizeHttp

NormSpec == NormInit /\ [][NormNext]_vars

(***************************************************************************)
(* The HTTP worker alone, as the one sequential process it is: a step that *)
(* can be taken is eventually taken.                                       *)
(***************************************************************************)
HttpInit == Init /\ worker = "light-rj-http"

HttpNext ==
    \/ HttpGetInput \/ HttpStep1 \/ HttpCreateTask \/ HttpPoll \/ HttpLogin
    \/ HttpStep3 \/ HttpFindMonth \/ HttpDownloadPdf \/ HttpCatch \/ HttpFinally

HttpLive == HttpInit /\ [][HttpNext]_vars /\ WF_vars(HttpNext)

(***************************************************************************)
(* The cookie store of light-rj-http alone: the Set-Cookie header of the   *)
(* login response, then the document.cookie assignment of its page script. *)
(***************************************************************************)
MaxCookieLen == 4

CookieChars == {"a", "=", ";", " "}

CookieTexts ==
    UNION {[1..n -> CookieChars] : n \in 0..MaxCookieLen}

\* String.prototype.indexOf of one character: 0-based, -1 when absent
indexOf(s, c) ==
    IF \E k \in 1..Len(s) : s[k] = c
    THEN (CHOOSE k \in 1..Len(s) : s[k] = c /\ \A j \in 1..(k - 1) : s[j] # c) - 1
    ELSE -1

\* String.prototype.substring(from, to), 0-based, 'to' excluded
substring(s, from, to) == SubSeq(s, from + 1, to)

\* String.prototype.split on one character
RECURSIVE split(_, _)
split(s, c) ==
    LET k == indexOf(s, c)
    IN  IF k = -1 THEN <<s>>
        ELSE <<substring(s, 0, k)>> \o split(substring(s, k + 1, Len(s)), c)

\* cookies[name] = value
SetCookie(store, name, value) ==
    {c \in store : c.name # name} \cup {[name |-> name, value |-> value]}

\* light-rj-http main.ts:124-133: 'value' is the second piece of the split on '='
RECURSIVE parseCookies(_, _)
parseCookies(store, setCookieHeaders) ==
    IF setCookieHeaders = <<>> THEN store
    ELSE LET pair == split(Head(setCookieHeaders), ";")[1]
             parts == split(pair, "=")
             stored == IF parts[1] # <<>> /\ Len(parts) >= 2
                       THEN SetCookie(store, trim(parts[1]), trim(parts[2]))
                       ELSE store
         IN  parseCookies(stored, Tail(setCookieHeaders))

\* light-rj-http main.ts:290, 300-310: the text between the quotes of a
\* document.cookie assignment (never empty: [^'"]+); the value is everything
\* after the first '=' of the pair
documentCookie(store, cookieStr) ==
    IF cookieStr = <<>> THEN store
    ELSE LET pair == split(cookieStr, ";")[1]
             eqIdx == indexOf(pair, "=")
         IN  IF eqIdx > 0
             THEN SetCookie(store, trim(substring(pair, 0, eqIdx)),
                            trim(substring(pair, eqIdx + 1, Len(pair))))
             ELSE store

CookieInit ==
    /\ worker = "light-rj-http"
    /\ pc = "step2Cookies"
    /\ input = [isNull |-> FALSE, username |-> <<>>, password |-> TRUE,
                antiCaptchaKey |-> TRUE, installationCode |-> <<>>,
                referenceMonth |-> <<>>]
    /\ username = input.username
    /\ env = [ANTI_CAPTCHA_KEY |-> FALSE]
    /\ status = "RUNNING"
    /\ thrown = ""
    /\ browser = "none"
    /\ url = <<>>
    /\ page = NoPage
    /\ loginSuccess = FALSE
    /\ loginAttempts = 0
    /\ attempts = 0
    /\ createTaskResponse = NoResponse
    /\ resultResponse = NoResponse
    /\ token = 0
    /\ result = ""
    /\ installCount = 0
    /\ count = 0
    /\ i = 0
    /\ downloadUrl = "none"
    /\ kvStore = {}
    /\ dataset = <<>>
    /\ h = InitHistory

\* light-rj-http main.ts:283: the Set-Cookie header of the login response
ParseStep2Cookies ==
    /\ pc = "step2Cookies"
    /\ \E text \in CookieTexts :
         h' = [h EXCEPT !.cookies = parseCookies(@, <<text>>), !.cookieText = text]
    /\ pc' = "jsCookies"
    /\ UNCHANGED <<worker, input, username, env, status, thrown, browser, url, page,
                   loginSuccess, loginAttempts, solverVars, discoveryVars, kvStore,
                   dataset>>

\* light-rj-http main.ts:296-310: a document.cookie assignment found in the page
ExtractJsCookies ==
    /\ pc = "jsCookies"
    /\ \E text \in CookieTexts :
         h' = [h EXCEPT !.cookies = documentCookie(@, text), !.cookieText = text]
    /\ pc' = "step2Done"
    /\ UNCHANGED <<worker, input, username, env, status, thrown, browser, url, page,
                   loginSuccess, loginAttempts, solverVars, discoveryVars, kvStore,
                   dataset>>

CookieNext == ParseStep2Cookies \/ ExtractJsCookies

CookieSpec == CookieInit /\ [][CookieNext]_vars

(***************************************************************************)
(* The dashboard runner: handleRun of ActorRunner.tsx and the API route    *)
(* that spawns the actor process.                                          *)
(***************************************************************************)
PollIntervalMs == 1000

SafetyTimeoutMs == 300000

RunnerInit ==
    /\ worker = "dashboard"
    /\ pc = "runnerIdle"
    /\ input = [isNull |-> FALSE, username |-> <<>>, password |-> TRUE,
                antiCaptchaKey |-> TRUE, installationCode |-> <<>>,
                referenceMonth |-> <<>>]
    /\ username = input.username
    /\ env = [ANTI_CAPTCHA_KEY |-> FALSE]
    /\ status = "RUNNING"
    /\ thrown = ""
    /\ browser = "none"
    /\ url = <<>>
    /\ page = NoPage
    /\ loginSuccess = FALSE
    /\ loginAttempts = 0
    /\ attempts = 0
    /\ createTaskResponse = NoResponse
    /\ resultResponse = NoResponse
    /\ token = 0
    /\ result = ""
    /\ installCount = 0
    /\ count = 0
    /\ i = 0
    /\ downloadUrl = "none"
    /\ kvStore = {}
    /\ dataset = <<>>
    /\ h = InitHistory

RunnerFrame ==
    UNCHANGED <<worker, input, username, env, status, thrown, browser, url, page,
                loginSuccess, loginAttempts, solverVars, discoveryVars, kvStore, dataset>>

\* ActorRunner.tsx:37-54: handleRun of the render the control was clicked in;
\* its closure holds the 'isRunning' of that render
HandleRun ==
    /\ pc = "runnerIdle"
    /\ h' = [h EXCEPT !.runner.captured = h.runner.isRunning,
                      !.runner.isRunning = TRUE,
                      !.runner.runResult = FALSE]
    /\ pc' = "posted"
    /\ RunnerFrame

\* route.ts:84-137: the request fails (400, 404, 500, or no answer), or the
\* store of the run is prepared, the actor process is spawned and not awaited
POST ==
    /\ pc = "posted"
    /\ \E ok \in BOOLEAN :
         h' = [h EXCEPT !.runner.response = IF ok THEN "ok" ELSE "error",
                        !.runner.child = IF ok THEN "running" ELSE @]
    /\ pc' = "responded"
    /\ RunnerFrame

\* ActorRunner.tsx:56-105: the rest of handleRun
HandleRunResponse ==
    /\ pc = "responded"
    /\ IF h.runner.response = "ok"
       THEN /\ h' = [h EXCEPT !.runner.runResult = TRUE,
                              !.runner.interval = "active",
                              !.runner.timeout = "pending"]
            /\ pc' = "polling"
       ELSE /\ h' = [h EXCEPT !.runner.isRunning = FALSE]
            /\ pc' = "runFailed"
    /\ RunnerFrame

\* route.ts:77-80: the 'error' event of the actor process; nothing is written
ChildError ==
    /\ h.runner.child = "running"
    /\ h' = [h EXCEPT !.runner.child = "errored"]
    /\ UNCHANGED pc
    /\ RunnerFrame

\* route.ts:64-75: the 'close' event; status.json is written unless the write throws
ChildClose ==
    /\ h.runner.child \in {"running", "errored"}
    /\ \E written \in BOOLEAN :
         h' = [h EXCEPT !.runner.child = "closed",
                        !.runner.statusJson = written]
    /\ UNCHANGED pc
    /\ RunnerFrame

\* the 'isRunning' the safety timeout reads
TimeoutSees(current, captured) == captured

\* ActorRunner.tsx:65-93: one run of the interval callback; a failed request
\* is caught and logged
PollTick ==
    /\ h.runner.interval = "active"
    /\ h.runner.elapsed + PollIntervalMs <= SafetyTimeoutMs
    /\ \E answered \in BOOLEAN :
         h' = [h EXCEPT !.runner.elapsed = @ + PollIntervalMs,
                        !.runner.interval =
                            IF answered /\ h.runner.statusJson THEN "cleared" ELSE @,
                        !.runner.isRunning =
                            IF answered /\ h.runner.statusJson THEN FALSE ELSE @]
    /\ UNCHANGED pc
    /\ RunnerFrame

\* ActorRunner.tsx:96-99: the safety timeout, due when SafetyTimeoutMs have passed
SafetyTimeout ==
    /\ h.runner.timeout = "pending"
    /\ h.runner.interval = "active" =>
           h.runner.elapsed + PollIntervalMs >= SafetyTimeoutMs
    /\ h' = [h EXCEPT !.runner.timeout = "fired",
                      !.runner.interval = "cleared",
                      !.runner.isRunning =
                          IF TimeoutSees(@, h.runner.captured) THEN FALSE ELSE @]
    /\ UNCHANGED pc
    /\ RunnerFrame

RunnerNext ==
    \/ HandleRun \/ POST \/ HandleRunResponse \/ ChildError \/ ChildClose
    \/ PollTick \/ SafetyTimeout

\* The request is answered and the timers of the browser fire; the actor
\* process may run forever.
RunnerLive ==
    /\ RunnerInit /\ [][RunnerNext]_vars
    /\ WF_vars(POST) /\ WF_vars(HandleRunResponse)
    /\ WF_vars(PollTick) /\ WF_vars(SafetyTimeout)

(***************************************************************************)
(* Properties.                                                             *)
(***************************************************************************)
AttemptPcs ==
    {"navigate", "fill", "createTask", "poll", "inject", "submit", "awaitOutcome",
     "validate", "loginCatch"}

\* C1: the login loop of the browser worker starts at most 3 attempts; once an
\* attempt is validated no attempt is running or started any more; and the
\* aggregated error 'Failed to login after 3 attempts.' is raised only when
\* the third attempt has failed.
C1_LoginLoopBounded ==
    worker = "light-rj" =>
        /\ loginAttempts <= 3
        /\ (loginSuccess => pc \notin AttemptPcs)
        /\ (thrown = "Failed to login after 3 attempts." =>
                loginAttempts = 3 /\ ~loginSuccess /\ ~h.validated)

C1_Witness ==
    /\ worker = "light-rj" /\ pc = "mainCatch"
    /\ thrown = "Failed to login after 3 attempts."

\* C2 (as claimed): a browser login attempt that reaches validation with no
\* error banner shown is declared successful if and only if the URL contains
\* 'login.aspx' (in any case), the greeting is visible, or the username input
\* is not shown.
C2_SuccessIffSignal ==
    (worker = "light-rj" /\ h.validation # "none" /\ page.banner = "none") =>
        (h.validation = "success"
            <=> (isLoginUrl(url) \/ page.hasWelcome \/ ~page.inputVisible))

\* C3: neither copy of solveAntiCaptcha returns a token when createTask or a
\* getTaskResult answered with errorId # 0 (also when that answer says
\* 'ready'): the call raises an error instead.
C3_NoTokenOnServiceError ==
    /\ (h.solver = "returned" =>
            /\ createTaskResponse.errorId = 0
            /\ resultResponse.errorId = 0 /\ resultResponse.status = "ready"
            /\ token # 0)
    /\ ((createTaskResponse.errorId # 0 \/ resultResponse.errorId # 0) =>
            h.solver = "raised" /\ token = 0 /\ pc \in {"loginCatch", "httpCatch", "exited"})

C3_Witness ==
    /\ resultResponse = [errorId |-> 1, status |-> "ready"]
    /\ h.solver = "raised"
    /\ thrown = "Anti-Captcha Task Error"

\* C4: solveAntiCaptcha never sends a 201st getTaskResult, and the timeout
\* error is raised only after exactly 200 polls that all answered errorId 0
\* and a status other than 'ready'; no token is returned then.
C4_TimeoutAfterExactly200 ==
    /\ h.getTaskResultCalls <= 200
    /\ (thrown = "Anti-Captcha timeout." /\ pc \in {"loginCatch", "httpCatch"} =>
            /\ h.getTaskResultCalls = 200
            /\ attempts = 200
            /\ resultResponse = [errorId |-> 0, status |-> "processing"]
            /\ h.solver = "raised"
            /\ token = 0)

C4_Witness ==
    /\ thrown = "Anti-Captcha timeout." /\ pc = "loginCatch"
    /\ h.getTaskResultCalls = 200

\* C5: in the Light RJ workers nothing of the invoice workflow (a request to
\* a bill-listing surface, an installation lookup, a month search, a
\* download) happens unless a login attempt of the run was validated before.
C5_LoginGatesEverything ==
    (worker \in {"light-rj", "light-rj-http"}
        /\ (\/ h.billNavs > 0 \/ h.lookups # <<>> \/ h.searches # <<>>
            \/ h.started # {} \/ h.downloadGets > 0
            \/ pc \in {"capture", "surface", "lookup", "httpAfterLogin", "httpMonth"})) =>
        /\ h.validated
        /\ (worker = "light-rj" => loginSuccess)

C5_Witness ==
    /\ worker = "light-rj" /\ loginAttempts = 2
    /\ h.billNavs > 0 /\ h.lookups # <<>>

\* C6 (as claimed): in the browser workers, whenever a terminal status has
\* been reported for a run that launched a browser, the browser was closed
\* before.
C6_BrowserClosedBeforeReport ==
    (worker \in {"light-rj", "equatorial"} /\ status # "RUNNING" /\ browser # "none") =>
        h.closedAtReport = "closed"

\* C7 (as claimed): a run of the browser worker that found zero matches of the
\* month on the open-bills surface and zero on the paid-bills surface ends
\* with a failure status.
C7_BillNotFoundFails ==
    (worker = "light-rj" /\ pc = "exited"
        /\ h.searches = << <<"open", 0>>, <<"paid", 0>> >>) =>
        /\ status = "FAILED"
        /\ Key("BILL_NOT_FOUND.png", 0) \in kvStore

\* C8 (as claimed): a run of the browser worker whose download loop has
\* finished and in which some match had no visible download control ends with
\* a failure status.
C8_MissingButtonFails ==
    (worker = "light-rj" /\ pc = "exited" /\ h.noButton # {} /\ i = count) =>
        status = "FAILED"

\* The files of the 'downloaded' records.
DownloadedFiles ==
    {dataset[k].file : k \in {n \in 1..Len(dataset) : dataset[n].status = "downloaded"}}

\* C9: when the click of a match is followed by no download event (neither on
\* the listener armed before the click nor after a confirmed modal), no
\* invoice and no 'downloaded' record exist for that match, no later match is
\* started, and the run ends with a failure status.
C9_DownloadTimeoutFails ==
    (worker = "light-rj" /\ h.silentAt # 0) =>
        /\ InvoiceKey(h.silentAt - 1) \notin kvStore
        /\ InvoiceKey(h.silentAt - 1) \notin DownloadedFiles
        /\ h.started \subseteq 1..h.silentAt
        /\ thrown = "Download event timeout"
        /\ pc \in {"mainCatch", "fail", "exited"}
        /\ (pc = "exited" => status = "FAILED")

C9_Witness ==
    /\ worker = "light-rj" /\ pc = "exited" /\ h.silentAt = 2
    /\ InvoiceKey(0) \in kvStore

\* The lookup had to be repeated on the paid-bills surface.
LookupOwed ==
    /\ h.lookups # <<>>
    /\ h.lookups[1] = <<"open", 0>>
    /\ result # "UP_TO_DATE"

\* Every lookup that had to be made was made, and none found the installation.
AbsentEverywhere ==
    /\ h.lookups # <<>>
    /\ LookupOwed => Len(h.lookups) = 2
    /\ \A k \in 1..Len(h.lookups) : h.lookups[k][2] = 0

\* C10: in the browser worker the 'installation not found' failure is raised
\* exactly when the installation is absent from every surface that had to be
\* checked; the lookup is repeated (once, on the paid-bills surface) when the
\* account was not signalled as current and the open-bills surface lacks the
\* installation.
C10_InstallationNotFoundExactly ==
    (worker = "light-rj" /\ pc \notin {"lookup", "lookupPaid"}) =>
        /\ (thrown = "Installation not found on any checked page." <=> AbsentEverywhere)
        /\ Len(h.lookups) <= 2
        /\ (Len(h.lookups) = 2 => LookupOwed /\ h.lookups[2][1] = "paid")

C10_Witness ==
    /\ worker = "light-rj"
    /\ thrown = "Installation not found on any checked page."
    /\ Len(h.lookups) = 2

\* The digit characters of s, in their order.
RECURSIVE DigitSubsequence(_)
DigitSubsequence(s) ==
    IF s = <<>> THEN <<>>
    ELSE IF Head(s) \in DigitChars THEN <<Head(s)>> \o DigitSubsequence(Tail(s))
    ELSE DigitSubsequence(Tail(s))

HasAt(s) == \E k \in 1..Len(s) : s[k] = "@"

\* C15: in the browser worker, in every login attempt, a username without '@'
\* is used as the subsequence of its digits and a username with '@' is used
\* unchanged.
C15_BrowserUsernameDigits ==
    (worker = "light-rj" /\ pc = "normalized") =>
        username = IF HasAt(input.username) THEN input.username
                   ELSE DigitSubsequence(input.username)

C15_Witness ==
    /\ worker = "light-rj" /\ pc = "normalized" /\ loginAttempts = 2
    /\ input.username = <<"1", ".", "2">> /\ username = <<"1", "2">>

\* C16 (as claimed): in the HTTP worker every username without '@' is posted
\* as the subsequence of the digits of the trimmed input.
C16_HttpUsernameDigits ==
    (worker = "light-rj-http" /\ pc = "normalized" /\ ~HasAt(input.username)) =>
        username = DigitSubsequence(trim(input.username))

\* C16 (amended): in the HTTP worker a username without '@' is posted as the
\* subsequence of the digits of the trimmed input when at least half of the
\* characters of the trimmed input are digits, and as the trimmed input
\* otherwise.
C16_HttpUsernameMostlyDigits ==
    (worker = "light-rj-http" /\ pc = "normalized" /\ ~HasAt(input.username)) =>
        username = IF 2 * Len(DigitSubsequence(trim(input.username)))
                        >= Len(trim(input.username))
                   THEN DigitSubsequence(trim(input.username))
                   ELSE trim(input.username)

C16_Witness ==
    /\ worker = "light-rj-http" /\ pc = "normalized"
    /\ input.username = <<" ", "1", "a">> /\ username = <<"1">>

\* C11 (as claimed): when the open-bills page showed the account-is-current
\* message, the first installation lookup of the browser worker is made on
\* the paid-bills surface and none is made on the open-bills surface.
C11_CurrentAccountSkipsOpenBills ==
    (worker = "light-rj" /\ h.upToDateShown) =>
        \A k \in 1..Len(h.lookups) : h.lookups[k][1] = "paid"

\* The name the invoice of match k has for installation 9988 and month 03/2025.
ExpectedName(k) == "invoice_9988_03-2025_" \o ToString(k) \o ".pdf"

InvoiceKeysInSink ==
    {key \in kvStore : \E k \in 1..(MaxMatches + 1) : key.name = ExpectedName(k)}

\* The 'downloaded' records, in the order they were pushed.
DownloadedRecords ==
    LET isDownloaded(r) == r.status = "downloaded" IN SelectSeq(dataset, isDownloaded)

\* C12: when the installation holds n >= 1 matches and every download of the
\* browser worker succeeded, the store holds exactly n invoices, named with
\* the indices 1..n, and the 'downloaded' records name them in match order.
C12_OneArtifactPerMatch ==
    (worker = "light-rj" /\ pc = "exited" /\ status = "SUCCEEDED"
        /\ count >= 1 /\ h.noButton = {}) =>
        /\ InvoiceKeysInSink = {Key(ExpectedName(k), 0) : k \in 1..count}
        /\ Cardinality(InvoiceKeysInSink) = count
        /\ Len(DownloadedRecords) = count
        /\ \A k \in 1..count : DownloadedRecords[k].file = Key(ExpectedName(k), 0)

C12_Witness ==
    /\ worker = "light-rj" /\ pc = "exited" /\ status = "SUCCEEDED"
    /\ count = 2 /\ h.noButton = {}
    /\ Key(ExpectedName(2), 0) \in kvStore

StartsWithPdfSignature(b) ==
    Len(b) >= 5 /\ b[1] = "%" /\ b[2] = "P" /\ b[3] = "D" /\ b[4] = "F" /\ b[5] = "-"

C14_BrowserStoresOnlyPdf ==
    worker = "light-rj" => \A e \in h.stored : StartsWithPdfSignature(e[2])

\* C17: the file keys of the 'downloaded' records are the invoice keys of the
\* store, one record per stored invoice, each stored under the key
\* invoice_<installationCode>_<referenceMonth with '-' for '/'>_<index>.pdf
\* of a match the worker started (the HTTP worker: index 1).
C17_RecordsMirrorSink ==
    worker \in {"light-rj", "light-rj-http"} =>
        /\ DownloadedFiles = InvoiceKeysInSink
        /\ Len(DownloadedRecords) = Cardinality(InvoiceKeysInSink)
        /\ {e[1] : e \in h.stored} = DownloadedFiles
        /\ \A r \in DownloadedFiles :
              \E k \in (IF worker = "light-rj" THEN h.started ELSE {1}) :
                  r = Key(ExpectedName(k), 0)

C17_Witness ==
    /\ worker = "light-rj" /\ pc = "exited" /\ count = 1
    /\ input.installationCode = <<"9", "9", "8", "8">>
    /\ input.referenceMonth = <<"0", "3", "/", "2", "0", "2", "5">>
    /\ DownloadedFiles = {Key("invoice_9988_03-2025_1.pdf", 0)}
    /\ Key("invoice_9988_03-2025_1.pdf", 0) \in kvStore

\* C18: in the browser workers a failure raised after the browser was
\* launched is reported only after the error diagnostics were attempted
\* (Light RJ: ERROR_SCREENSHOT.png and PAGE_DUMP.html, both in the store when
\* the capture did not fail), and it is reported with the message of the
\* original error also when the capture failed.
C18_DiagnosticsBeforeFail ==
    worker \in {"light-rj", "equatorial"} =>
        /\ (pc \in {"fail", "eqFail"} => h.diag # "none" /\ h.raised = thrown)
        /\ (status = "FAILED" /\ browser # "none") =>
              /\ h.diag # "none"
              /\ h.raised # "" /\ h.reported = h.raised
              /\ (h.diag = "saved" => Key("ERROR_SCREENSHOT.png", 0) \in kvStore)
              /\ (h.diag = "saved" /\ worker = "light-rj" =>
                      Key("PAGE_DUMP.html", 0) \in kvStore)

C18_Witness ==
    /\ worker = "light-rj" /\ status = "FAILED" /\ h.diag = "failed"
    /\ h.reported = "Failed to login after 3 attempts."

\* C19: a run of a Light RJ worker whose input lacks the username or the
\* password makes no login attempt and no request to the solving service,
\* launches no browser, and ends with a failure status.
C19_MissingCredentialsFail ==
    (worker \in {"light-rj", "light-rj-http"}
        /\ (input.isNull \/ input.username = <<>> \/ ~input.password)) =>
        /\ pc \in {"getInput", "outerCatch", "httpCatch", "exited"}
        /\ browser = "none"
        /\ loginAttempts = 0 /\ h.createTaskCalls = 0 /\ h.validation = "none"
        /\ url = <<>> /\ dataset = <<>>
        /\ (pc = "exited" => status = "FAILED")

C19_Witness ==
    /\ worker = "light-rj" /\ pc = "exited" /\ status = "FAILED"
    /\ input.username # <<>> /\ ~input.password /\ ~input.isNull

BothPresent == input.installationCode # <<>> /\ input.referenceMonth # <<>>

\* C20: after a validated login the Light RJ workers start the invoice
\* workflow if and only if installationCode and referenceMonth are both
\* present; a login-only run makes no request to a bill surface and ends
\* without a failure status.
C20_CaptureIffBothPresent ==
    worker \in {"light-rj", "light-rj-http"} =>
        /\ (h.billNavs > 0 \/ h.lookups # <<>> \/ h.searches # <<>>) => BothPresent
        /\ (h.validated /\ pc = "exited" /\ BothPresent) => h.billNavs > 0
        /\ (h.validated /\ pc = "exited" /\ ~BothPresent) =>
              status = "SUCCEEDED" /\ h.billNavs = 0 /\ h.started = {}

C20_Witness ==
    /\ worker = "light-rj" /\ pc = "exited" /\ status = "SUCCEEDED" /\ h.validated
    /\ input.installationCode # <<>> /\ input.referenceMonth = <<>>

\* C21 (as stated): in a browser login attempt whose banner after submit is a
\* bot rejection the submit control is clicked at most twice, the fields are
\* filled once and the token injected once, and an attempt whose banner was
\* still visible at the re-check after the re-submit is never validated as
\* logged in.
C21_RetryBannerNeverValidated ==
    (worker = "light-rj" /\ h.attempt.banner = "robo") =>
        /\ h.attempt.clicks <= 2
        /\ h.attempt.fills = 1 /\ h.attempt.injections = 1
        /\ h.attempt.retryBanner => (h.validation # "success" /\ ~loginSuccess)

\* C22: a banner after submit that is not a bot rejection ends the attempt
\* with the error of the banner: the submit control was clicked once and the
\* validation was not reached.
C22_OtherBannerFailsAttempt ==
    (worker = "light-rj" /\ h.attempt.banner = "other") =>
        /\ pc = "loginCatch" /\ thrown = "Login failed: banner"
        /\ h.attempt.clicks = 1
        /\ h.validation = "none" /\ ~loginSuccess

C22_Witness ==
    /\ worker = "light-rj" /\ pc = "loginCatch" /\ h.attempt.banner = "other"
    /\ h.attempt.clicks = 1 /\ loginAttempts = 2

C24_DownloadNeverLost ==
    h.lastClick.match # 0 =>
        /\ h.lastClick.fired =>
              /\ h.lastClick.saved # "none"
              /\ IF worker = "equatorial"
                 THEN pc \in {"eqFinally", "eqExit", "exited"} /\ Key("FATURA", 1) \in kvStore
                 ELSE pc = "loopHead" /\ InvoiceKey(h.lastClick.match - 1) \in kvStore
        /\ (~h.lastClick.modal /\ h.lastClick.saved # "none") => h.lastClick.saved = "first"

C24_Witness ==
    /\ worker = "light-rj" /\ pc = "loopHead"
    /\ h.lastClick.match = 2 /\ ~h.lastClick.modal /\ h.lastClick.moment = "atClick"
    /\ h.lastClick.saved = "first" /\ InvoiceKey(1) \in kvStore

\* C25: a match without a visible download control does not end the download
\* loop: its diagnostics are saved, the loop goes on to the matches after it,
\* and the invoice of every match that was downloaded is named with the
\* position of that match among the matches.
C25_SkippedMatchKeepsPositions ==
    (worker = "light-rj" /\ h.noButton # {}) =>
        /\ \A k \in h.noButton :
              /\ Key("DEBUG_NO_DL_BTN.png", k) \in kvStore
              /\ Key("PAGE_DUMP.html", 0) \in kvStore
              /\ i >= k
        /\ thrown = "" => pc \in {"loopHead", "locate", "click", "finally", "exit", "exited"}
        /\ (thrown = "" /\ pc \in {"finally", "exit", "exited"}) => h.started = 1..count
        /\ InvoiceKeysInSink = {Key(ExpectedName(k), 0) : k \in (1..i) \ h.noButton}
        /\ \A n \in 1..Len(DownloadedRecords) :
              \E k \in (1..i) \ h.noButton : DownloadedRecords[n].file = Key(ExpectedName(k), 0)

C25_Witness ==
    /\ worker = "light-rj" /\ pc = "exited" /\ h.noButton = {1} /\ count = 2
    /\ Key("DEBUG_NO_DL_BTN.png", 1) \in kvStore
    /\ InvoiceKeysInSink = {Key(ExpectedName(2), 0)}

PaidNavs == {k \in 1..Len(h.navs) : h.navs[k] = "paid"}

\* C26: the month search falls back to the paid-bills surface only after a
\* search with zero matches on a surface that is not the paid-bills surface;
\* a run navigates to the paid-bills surface at most once and never
\* navigates to the open-bills surface after it.
C26_PaidSurfaceAtMostOnce ==
    worker = "light-rj" =>
        /\ pc = "searchPaid" => (count = 0 /\ Surface(url) # "paid")
        /\ Cardinality(PaidNavs) <= 1
        /\ \A j \in PaidNavs : \A k \in 1..Len(h.navs) : k > j => h.navs[k] # "open"
        /\ Len(h.searches) <= 2
        /\ Len(h.searches) = 2 =>
              /\ h.searches[1][2] = 0 /\ h.searches[1][1] # "paid"
              /\ h.searches[2][1] = "paid"

C26_Witness ==
    /\ worker = "light-rj" /\ h.navs = <<"open", "paid">>
    /\ Len(h.searches) = 2 /\ h.searches[1] = <<"open", 0>> /\ pc = "found"

\* C27: content that is still not visible after the header click and the
\* icon click does not fail the run at the expansion: the run goes on to the
\* content settle and the month search.
C27_FailedExpansionNotFatal ==
    (worker = "light-rj" /\ h.disc.clicks = 2 /\ ~h.disc.shownAfter) =>
        /\ pc \in {"settle", "search", "settlePaid", "monthPaid"}
        /\ thrown = ""

C27_Witness ==
    /\ worker = "light-rj" /\ pc = "search" /\ h.disc.code = "open"
    /\ h.disc.clicks = 2 /\ ~h.disc.shownAfter

\* C28 (as stated): on both surfaces no expand click is issued when the
\* content of the installation is visible and non-empty, whatever the closed
\* flag of the entry says.
C28_NoClickWhenContentShown ==
    (worker = "light-rj" /\ h.disc.shown) => h.disc.clicks = 0

\* C29 (as stated): the month search does not start while the loading
\* indicator that was observed attached has not been observed detached.
C29_SearchAfterDetach ==
    (worker = "light-rj" /\ pc \in {"search", "monthPaid"}) => h.disc.spinner # "stuck"

\* C30 (as stated): the entry (or the page) accepted as the requested
\* installation is labeled with exactly the requested code, never with a
\* code that only contains it.
C30_ExactInstallationMatch ==
    h.disc.accepted # "substring"

\* C31 (as stated): in the HTTP worker the link that extractDownloadUrl
\* returns is the one of a bill of the requested installation labeled with
\* the target month, and the expansion trigger that is posted is the one of
\* the requested installation.
C31_HttpLinkOfTargetBill ==
    worker = "light-rj-http" =>
        /\ h.disc.picked \in {"none", "target"}
        /\ h.disc.trigger \in {"none", "exact"}

\* C32: within one call of solveAntiCaptcha createTask is sent once and before
\* any getTaskResult; no getTaskResult follows a createTask that reported an
\* error code; every getTaskResult is preceded by the same delay of 3000 ms;
\* and no request is sent once the token was returned or an error raised.
C32_SolverRequestOrder ==
    /\ [](/\ h.created <= 1
          /\ h.getTaskResultCalls > 0 => (h.created = 1 /\ createTaskResponse.errorId = 0)
          /\ createTaskResponse.errorId # 0 => h.getTaskResultCalls = 0
          /\ h.pollDelay = 3000 * h.getTaskResultCalls)
    /\ [][h.solver \in {"returned", "raised"} =>
              /\ h'.createTaskCalls = h.createTaskCalls
              /\ h'.created <= h.created
              /\ h'.getTaskResultCalls <= h.getTaskResultCalls]_vars

C32_Witness ==
    /\ worker = "light-rj-http" /\ h.solver = "returned"
    /\ h.getTaskResultCalls = 3 /\ h.pollDelay = 9000 /\ h.created = 1

\* C33 (as stated): in each worker, when the login surface yields no site
\* key, the attempt fails and the solving service is not called for it.
C33_NoSolverWithoutSiteKey ==
    h.attempt.siteKey = "absent" =>
        /\ h.created = 0
        /\ pc \notin {"createTask", "poll", "httpCreateTask", "httpPoll"}

\* C34: the normalization of the browser worker is idempotent: the username
\* given to the form in every attempt is the one of the first attempt, and
\* the password is the one of the input in every attempt.
C34_SameCredentialsEveryAttempt ==
    worker = "light-rj" =>
        /\ Len(h.typed) <= 3
        /\ CleanUsername(CleanUsername(input.username)) = CleanUsername(input.username)
        /\ \A k \in 1..Len(h.typed) :
              /\ h.typed[k].username = h.typed[1].username
              /\ h.typed[k].password = input.password

C34_Witness ==
    /\ worker = "light-rj" /\ Len(h.typed) = 3
    /\ input.username = <<"1", ".", "2">> /\ h.typed[3].username = <<"1", "2">>

\* C35 (as stated): in the HTTP worker every call of downloadPdf terminates:
\* whatever the server answers, the download step is left after finitely
\* many requests, with a stored PDF or with an error.
C35_DownloadPdfTerminates ==
    (pc = "httpDownload") ~> (pc # "httpDownload")

\* C36: a login attempt of the browser worker creates at most one CAPTCHA
\* task and a run at most 3; the token injected in an attempt is the one of
\* the task created in that attempt; no task is created once an attempt was
\* validated.
C36_OneTaskPerAttempt ==
    /\ [](worker = "light-rj" =>
            /\ h.attempt.tasks <= 1
            /\ h.createTaskCalls <= loginAttempts /\ h.createTaskCalls <= 3
            /\ h.attempt.injections > 0 =>
                  /\ h.attempt.tasks = 1
                  /\ h.attempt.injected = h.createTaskCalls)
    /\ [][(worker = "light-rj" /\ (loginSuccess \/ h.validated)) =>
              h'.createTaskCalls = h.createTaskCalls]_vars

C36_Witness ==
    /\ worker = "light-rj" /\ pc = "submit" /\ loginAttempts = 3
    /\ h.createTaskCalls = 3 /\ h.attempt.tasks = 1 /\ h.attempt.injected = 3

\* C37: a cookie 'name=value; attributes' is stored with the same name and the
\* same value whether it arrives in a Set-Cookie header or in a document.cookie
\* assignment: what the header of the login response stored is what the
\* assignment of the same text would have stored
C37_SameCookieEitherRoute ==
    pc = "jsCookies" => h.cookies = documentCookie({}, h.cookieText)

\* the names of the store are never removed
CookieNamesKept ==
    [][{c.name : c \in h.cookies} \subseteq {c.name : c \in h'.cookies}]_vars

\* The keys of the invoices put in the store.
StoredKeys == {p[1] : p \in h.stored}

\* C38: when the download loop of the browser worker fails at match k with a
\* download timeout, the invoices and 'downloaded' records of the matches
\* before k stay as they were (the step that fails and every later step leave
\* them unchanged and remove nothing from the store), every record refers to a
\* stored invoice, nothing is stored for match k or a later one, and the run
\* ends with a failure status.
C38_TimeoutKeepsEarlierInvoices ==
    /\ []((worker = "light-rj" /\ h.silentAt # 0) =>
            /\ \A m \in h.silentAt..(MaxMatches + 1) :
                  /\ InvoiceKey(m - 1) \notin kvStore
                  /\ InvoiceKey(m - 1) \notin DownloadedFiles
                  /\ InvoiceKey(m - 1) \notin StoredKeys
            /\ DownloadedFiles = StoredKeys
            /\ StoredKeys \subseteq kvStore
            /\ \A p, q \in h.stored : p[1] = q[1] => p = q
            /\ (pc = "exited" => status = "FAILED"))
    /\ [][(worker = "light-rj" /\ h'.silentAt # 0) =>
            /\ h'.stored = h.stored
            /\ dataset' = dataset
            /\ kvStore \subseteq kvStore']_vars

C38_Witness ==
    /\ worker = "light-rj" /\ pc = "exited" /\ status = "FAILED"
    /\ h.silentAt = MaxMatches
    /\ InvoiceKey(0) \in DownloadedFiles
    /\ \E body \in DownloadBodies : <<InvoiceKey(0), body>> \in h.stored

\* C39: after handleRun has started an actor run, the runner eventually leaves
\* the running state: isRunning becomes false and the polling stops, when
\* status.json is first observed or at the latest when the safety timeout
\* fires, also when status.json never appears.
C39_RunnerLeavesRunning ==
    (h.runner.response = "ok") ~>
        (~h.runner.isRunning /\ h.runner.interval # "active")

\* the polling itself always stops
RunnerPollingStops ==
    (h.runner.response = "ok") ~> (pc = "polling" /\ h.runner.interval = "cleared")

====
